---- MODULE Spec2Model ----
(***************************************************************************)
(* Model of the order assistant: the rule-based planner                   *)
(* (agent_service/llm_adapter.py), the orchestration loop                  *)
(* (agent_service/agent.py), the tool server (mcp_server/server.py), its   *)
(* backend client (mcp_server/backend_client.py) and the orders backend    *)
(* (backend/main.py).                                                      *)
(*                                                                         *)
(* Conventions.  A Python value that may be absent (a missing dict key,    *)
(* None) is a sequence of length 0 or 1: <<>> is "absent", <<v>> is v.     *)
(* Text is a TLA+ string; substring tests, lower(), strip() and the two    *)
(* regular expressions of the planner are computed character by character. *)
(* Money is kept in cents.                                                 *)
(***************************************************************************)
EXTENDS Integers, Sequences, FiniteSets, TLC

VARIABLES
    ORDERS,            \* backend/main.py ORDERS: order id -> order record
    LATEST_ORDER_ID,   \* backend/main.py LATEST_ORDER_ID
    SCOPES,            \* mcp_server/server.py SCOPES of the running tool server
    cache,             \* mcp_server/server.py _idempotency_cache of the running tool server
    session,           \* the history the caller passed to the current turn, as it was then
    stored,            \* the caller's stored tool_results list (app.py session["tool_results"])
    conn,              \* what the McpConnection of the current turn holds: stdio, session
    pc,                \* position of run_agent: idle, plan, call, confirm, done, raised
    step,              \* run_agent: loop variable step
    user_message,      \* run_agent: parameter user_message of the current turn
    current_user_text, \* run_agent: current_user_text
    tool_results,      \* run_agent: tool_results (the turn's history)
    action,            \* run_agent: the pending ToolAction
    reply,             \* run_agent: the returned message, <<>> while running
    turn,              \* number of turns started
    said,              \* the user messages of the turns so far, in order
    fault_count,       \* number of transport faults that have happened
    uuids,             \* number of uuid4() values drawn
    writes,            \* every change made to ORDERS so far, in order
    obs,               \* what the current turn has done: planner calls, tool calls, requests
    tasks,             \* the handler invocations an event loop has in flight, in arrival order
    heap               \* agent_service/app.py: the list objects and the list sessions[id]["tool_results"] names

vars == <<ORDERS, LATEST_ORDER_ID, SCOPES, cache, session, stored, conn, pc, step, user_message,
          current_user_text, tool_results, action, reply, turn, said, fault_count, uuids, writes, obs,
          tasks, heap>>

----------------------------------------------------------------------------
(* Text *)

Has(opt) == Len(opt) > 0

\* the element of a one-element set
The(S) == CHOOSE x \in S : TRUE

Val(opt) == opt[1]

Char(s, i) == SubSeq(s, i, i)

UpperChars == "ABCDEFGHIJKLMNOPQRSTUVWXYZ"

LowerChars == "abcdefghijklmnopqrstuvwxyz"

Digits == "0123456789"

\* str.lower() on one character
LowerChar(c) ==
    IF \E i \in 1..26 : Char(UpperChars, i) = c
    THEN Char(LowerChars, CHOOSE i \in 1..26 : Char(UpperChars, i) = c)
    ELSE c

RECURSIVE Lower(_)
\* str.lower()
Lower(s) == IF Len(s) = 0 THEN "" ELSE LowerChar(Char(s, 1)) \o Lower(SubSeq(s, 2, Len(s)))

IsSpace(c) == c \in {" ", "\t", "\n", "\r"}

RECURSIVE StripLeft(_)
StripLeft(s) ==
    IF Len(s) > 0 /\ IsSpace(Char(s, 1)) THEN StripLeft(SubSeq(s, 2, Len(s))) ELSE s

RECURSIVE StripRight(_)
StripRight(s) ==
    IF Len(s) > 0 /\ IsSpace(Char(s, Len(s))) THEN StripRight(SubSeq(s, 1, Len(s) - 1)) ELSE s

\* str.strip()
Strip(s) == StripRight(StripLeft(s))

\* t occurs in s at position i
MatchAt(s, t, i) == i >= 1 /\ i + Len(t) - 1 <= Len(s) /\ SubSeq(s, i, i + Len(t) - 1) = t

\* Python's  t in s
Contains(s, t) == \E i \in 1..(Len(s) + 1) : MatchAt(s, t, i)

\* str.startswith
StartsWith(s, t) == MatchAt(s, t, 1)

RECURSIVE Replace(_, _)
\* str.replace(t, ""): every non-overlapping occurrence of t removed, left to right
Replace(s, t) ==
    IF Len(s) = 0 THEN ""
    ELSE IF MatchAt(s, t, 1) THEN Replace(SubSeq(s, Len(t) + 1, Len(s)), t)
    ELSE Char(s, 1) \o Replace(SubSeq(s, 2, Len(s)), t)

IsDigit(c) == \E i \in 1..10 : Char(Digits, i) = c

DigitVal(c) == (CHOOSE i \in 1..10 : Char(Digits, i) = c) - 1

RECURSIVE ParseInt(_)
\* int() of a string of digits
ParseInt(s) ==
    IF Len(s) = 0 THEN 0
    ELSE 10 * ParseInt(SubSeq(s, 1, Len(s) - 1)) + DigitVal(Char(s, Len(s)))

RECURSIVE SkipDigits(_, _)
\* first position >= i of s that holds no digit
SkipDigits(s, i) == IF i <= Len(s) /\ IsDigit(Char(s, i)) THEN SkipDigits(s, i + 1) ELSE i

RECURSIVE SkipSpaces(_, _)
\* first position >= i of s that holds no whitespace
SkipSpaces(s, i) == IF i <= Len(s) /\ IsSpace(Char(s, i)) THEN SkipSpaces(s, i + 1) ELSE i

\* the regular expression  \s*x?\s*  consumed greedily from position i
SkipSep(s, i) ==
    LET j == SkipSpaces(s, i)
        k == IF MatchAt(s, "x", j) THEN j + 1 ELSE j
    IN  SkipSpaces(s, k)

RECURSIVE Join(_, _)
\* sep.join(parts)
Join(parts, sep) ==
    IF Len(parts) = 0 THEN ""
    ELSE IF Len(parts) = 1 THEN parts[1]
    ELSE parts[1] \o sep \o Join(Tail(parts), sep)

\* format(cents / 100, ".2f")
Money(cents) ==
    LET c == cents % 100
    IN  ToString(cents \div 100) \o "." \o (IF c < 10 THEN "0" ELSE "") \o ToString(c)

----------------------------------------------------------------------------
(* RuleBasedPlanner: intent detection and item extraction *)

AVAILABLE_PRODUCTS == <<"widget", "gadget", "gizmo", "doohickey", "thingamajig">>

AnyIn(lower, phrases) == \E i \in 1..Len(phrases) : Contains(lower, phrases[i])

ProductMentioned(lower) ==
    \E i \in 1..Len(AVAILABLE_PRODUCTS) :
        \/ Contains(lower, AVAILABLE_PRODUCTS[i])
        \/ Contains(lower, AVAILABLE_PRODUCTS[i] \o "s")

ConfirmSet ==
    {"yes", "yes, cancel it", "yes cancel it", "confirm", "confirm cancel", "ok", "sure",
     "do it", "yes please", "proceed"}

DeclineSet == {"no", "no thanks", "never mind", "cancel that", "don't", "stop"}

\* a planner that recognises no intent
IntentUnknown(text) == "unknown"

\* RuleBasedPlanner._detect_intent: the first matching rule decides
_detect_intent(text) ==
    LET lower == Strip(Lower(text))
    IN  IF AnyIn(lower, <<"hello", "hi", "hey", "good morning", "good afternoon">>)
        THEN "greeting"
        ELSE IF AnyIn(lower, <<"help", "what can you do", "what do you do", "capabilities">>)
        THEN "help"
        ELSE IF Contains(lower, "cancel") /\ ~Contains(Replace(lower, "cancel"), "order")
        THEN "cancel"
        ELSE IF StartsWith(lower, "cancel")
        THEN "cancel"
        ELSE IF AnyIn(lower, <<"add order", "place order", "create order", "new order", "buy",
                               "order a", "want to order", "i want", "get me">>)
        THEN "add_order"
        ELSE IF ProductMentioned(lower)
                /\ AnyIn(lower, <<"order", "buy", "want", "get", "add">>)
        THEN "add_order"
        ELSE IF StartsWith(lower, "order ") /\ ProductMentioned(lower)
        THEN "add_order"
        ELSE IF Contains(lower, "cancel")
        THEN "cancel"
        ELSE IF AnyIn(lower, <<"status", "where is", "track", "tracking", "when will">>)
        THEN "status"
        ELSE IF AnyIn(lower, <<"show", "latest order", "my order", "order details",
                               "what order">>)
        THEN "show_order"
        ELSE IF lower \in ConfirmSet
        THEN "confirm"
        ELSE IF lower \in DeclineSet
        THEN "decline"
        ELSE "unknown"

\* re.search(rf"(\d+)\s*x?\s*{product}s?", lower): the positions where a match starts
NumBeforeStarts(lower, product) ==
    {i \in 1..Len(lower) :
        /\ IsDigit(Char(lower, i))
        /\ MatchAt(lower, product, SkipSep(lower, SkipDigits(lower, i)))}

\* re.search(rf"{product}s?\s*x?\s*(\d+)", lower): the positions where a match starts
NumAfterStarts(lower, product) ==
    {i \in 1..Len(lower) :
        /\ MatchAt(lower, product, i)
        /\ LET e == i + Len(product)
               j == SkipSep(lower, IF MatchAt(lower, "s", e) THEN e + 1 ELSE e)
           IN  j <= Len(lower) /\ IsDigit(Char(lower, j))}

Min(a, b) == IF a < b THEN a ELSE b

MinOf(S) == CHOOSE x \in S : \A y \in S : x <= y

\* an extraction that ignores the numbers
QuantityOne(lower, product) == 1

\* the quantity _extract_order_items finds for one product that occurs in lower
QuantityOf(lower, product) ==
    IF NumBeforeStarts(lower, product) # {}
    THEN LET i == MinOf(NumBeforeStarts(lower, product))
         IN  ParseInt(SubSeq(lower, i, SkipDigits(lower, i) - 1))
    ELSE IF NumAfterStarts(lower, product) # {}
    THEN LET i == MinOf(NumAfterStarts(lower, product))
             e == i + Len(product)
             j == SkipSep(lower, IF MatchAt(lower, "s", e) THEN e + 1 ELSE e)
         IN  ParseInt(SubSeq(lower, j, SkipDigits(lower, j) - 1))
    ELSE 1

RECURSIVE ExtractFromUnclamped(_, _)
\* an extraction that passes the quantity on as it was read
ExtractFromUnclamped(lower, k) ==
    IF k > Len(AVAILABLE_PRODUCTS) THEN <<>>
    ELSE LET product == AVAILABLE_PRODUCTS[k]
         IN  (IF Contains(lower, product)
              THEN <<[product_name |-> product, quantity |-> QuantityOf(lower, product)]>>
              ELSE <<>>) \o ExtractFromUnclamped(lower, k + 1)

RECURSIVE ExtractFrom(_, _)
ExtractFrom(lower, k) ==
    IF k > Len(AVAILABLE_PRODUCTS) THEN <<>>
    ELSE LET product == AVAILABLE_PRODUCTS[k]
         IN  (IF Contains(lower, product)
              THEN <<[product_name |-> product,
                      quantity |-> Min(QuantityOf(lower, product), 100)]>>
              ELSE <<>>) \o ExtractFrom(lower, k + 1)

\* an extraction without the clamp
extract_order_items_unclamped(text) == ExtractFromUnclamped(Lower(text), 1)

\* RuleBasedPlanner._extract_order_items
_extract_order_items(text) == ExtractFrom(Lower(text), 1)

----------------------------------------------------------------------------
(* Values: tool arguments, tool results, actions *)

\* the arguments of a tool call; every key may be absent
NoArgs == [items |-> <<>>, confirmed |-> <<>>, order_id |-> <<>>, idempotency_key |-> <<>>]

\* the empty dict {}: what last_result is when the history is empty
EmptyResult ==
    [ok |-> FALSE, order |-> <<>>, status |-> <<>>, result |-> <<>>, error |-> <<>>,
     idempotency_key |-> <<>>, raw |-> <<>>]

NoDetails ==
    [items |-> <<>>, order_id |-> <<>>, required |-> <<>>, status |-> <<>>, exception |-> <<>>]

\* errors.py structured_error of a ToolError(code, message, details)
ErrorResult(code, message, details) ==
    [EmptyResult EXCEPT !.error = <<[code |-> code, message |-> message, details |-> details]>>]

ToolAction(tool, args) == [type |-> "tool", tool |-> tool, args |-> args, text |-> ""]

AskUserAction(question) == [type |-> "ask_user", tool |-> "", args |-> NoArgs, text |-> question]

FinalAction(message) == [type |-> "final", tool |-> "", args |-> NoArgs, text |-> message]

NoAction == [type |-> "none", tool |-> "", args |-> NoArgs, text |-> ""]

----------------------------------------------------------------------------
(* RuleBasedPlanner.next_action *)

ProductList == Join(AVAILABLE_PRODUCTS, ", ")

\* ", ".join(f"{i['name']} x{i['qty']}" for i in items)
ItemsStr(items) == Join([k \in 1..Len(items) |-> items[k].name \o " x" \o ToString(items[k].qty)], ", ")

\* ", ".join(f"{i['quantity']}x {i['product_name']}" for i in items)
ItemsSummary(items) ==
    Join([k \in 1..Len(items) |-> ToString(items[k].quantity) \o "x " \o items[k].product_name],
         ", ")

OrderPlacedMessage(order) ==
    "Order placed successfully!\n\n"
    \o "- Order ID: " \o order.orderId \o "\n"
    \o "- Items: " \o ItemsStr(order.items) \o "\n"
    \o "- Total: $" \o Money(order.total) \o "\n"
    \o "- Status: " \o order.status

GreetingMessage ==
    "Hello! I'm your order assistant. I can help you:\n"
    \o "- Check your order status\n"
    \o "- Show your latest order details\n"
    \o "- Cancel delayed orders\n"
    \o "- Place a new order\n\n"
    \o "What would you like to do?"

HelpMessage ==
    "I can help you with:\n\n"
    \o "**Check order status** - Ask \"What's my order status?\"\n"
    \o "**View order details** - Ask \"Show my latest order\"\n"
    \o "**Cancel orders** - Ask \"Cancel my order\" (only delayed orders can be cancelled)\n"
    \o "**Place an order** - Ask \"Order 2 widgets\" (available: " \o ProductList \o ")\n\n"
    \o "Just type your question!"

DeclineMessage == "No problem! Let me know if you need anything else."

CancelledMessage == "Your order has been cancelled successfully."

AlreadyCancelledMessage == "This order was already cancelled."

OrderConfirmQuestion(items) ==
    "Ready to place order for: " \o ItemsSummary(items)
    \o ". Reply 'Yes' to confirm or 'No' to cancel."

GenericConfirmQuestion ==
    "I need your confirmation to proceed. Reply \"Yes\" to confirm or \"No\" to cancel."

WhatToOrderQuestion ==
    "What would you like to order? Available products: " \o ProductList \o ". "
    \o "You can say something like 'Order 2 widgets and 1 gadget'."

LatestOrderMessage(order) ==
    "**Your Latest Order**\n\n"
    \o "- Order ID: " \o order.orderId \o "\n"
    \o "- Status: " \o order.status \o "\n"
    \o "- Items: " \o (IF Len(order.items) > 0 THEN ItemsStr(order.items) ELSE "N/A") \o "\n"
    \o "- Total: $" \o Money(order.total)

StatusMessage(status_info) ==
    "**Order Status**\n\nOrder " \o status_info.orderId \o " is currently: " \o status_info.status
    \o (IF status_info.status = "DELAYED"
        THEN "\n\nWould you like me to cancel this order? Reply \"Yes\" to cancel."
        ELSE "")

CancelDelayedQuestion ==
    "Your order is delayed. Would you like me to cancel it? Reply \"Yes\" to confirm."

CancelAlreadyMessage == "This order has already been cancelled."

NotCancellableMessage(status) ==
    "Your order status is " \o status \o ". Only delayed orders can be cancelled. "
    \o "Would you like me to check if there's an issue with your order?"

LatestDelayedQuestion ==
    "Your latest order is DELAYED. Would you like me to cancel it? "
    \o "Reply \"Yes\" to cancel or \"No\" to keep it."

StatusIsMessage(status) ==
    "Your order status is: " \o status \o ". Let me know if you need anything else!"

NotSureMessage ==
    "I'm not sure what you'd like to do. I can help you:\n"
    \o "- Check your order status\n"
    \o "- Show your order details\n"
    \o "- Cancel a delayed order\n"
    \o "- Place a new order (available: " \o ProductList \o ")\n\n"
    \o "What would you like?"

IsConfirmationRequired(r) == Has(r.error) /\ Val(r.error).code = "CONFIRMATION_REQUIRED"

\* isinstance(result, dict) for the value under the key "result"
IsDict(v) == ~Has(v.str)

\* tool_results[-1] if tool_results else {}
LastResult(results) == IF Len(results) > 0 THEN results[Len(results)] ELSE EmptyResult

\* tool_results[-2:]
LastTwo(results) ==
    IF Len(results) <= 2 THEN results ELSE SubSeq(results, Len(results) - 1, Len(results))

\* llm_adapter.py 159-183: the summary of a write that has just succeeded, if any
SuccessRule(user_text, intent, last_result) ==
    IF (user_text = "" \/ intent \in {"greeting", "help", "unknown"}) /\ last_result.ok
    THEN IF Has(last_result.order) /\ Val(last_result.order).status = "PROCESSING"
         THEN <<FinalAction(OrderPlacedMessage(Val(last_result.order)))>>
         ELSE IF Has(last_result.result) /\ IsDict(Val(last_result.result))
                 /\ Val(last_result.result).status = "CANCELLED"
         THEN <<FinalAction(CancelledMessage)>>
         ELSE IF Has(last_result.result) /\ IsDict(Val(last_result.result))
                 /\ Val(last_result.result).status = "ALREADY_CANCELLED"
         THEN <<FinalAction(AlreadyCancelledMessage)>>
         ELSE <<>>
    ELSE <<>>

\* the question for one CONFIRMATION_REQUIRED error (llm_adapter.py 195-206)
ConfirmationQuestion(r) ==
    IF Has(Val(r.error).details.items)
    THEN AskUserAction(OrderConfirmQuestion(Val(Val(r.error).details.items)))
    ELSE AskUserAction(GenericConfirmQuestion)

\* llm_adapter.py 187-206: re-ask for a confirmation pending in the last two results
PendingRule(intent, results) ==
    IF intent \in {"confirm", "decline"} /\ Len(results) > 0
    THEN <<>>
    ELSE LET two == LastTwo(results)
             hits == {k \in 1..Len(two) : IsConfirmationRequired(two[k])}
         IN  IF hits = {} THEN <<>> ELSE <<ConfirmationQuestion(two[MinOf(hits)])>>

\* a scan for the pending order that runs from the oldest result on
PendingItemsOldest(results) ==
    LET hits == {k \in 1..Len(results) :
                    IsConfirmationRequired(results[k]) /\ Has(Val(results[k].error).details.items)}
    IN  IF hits = {} THEN <<>>
        ELSE <<Val(Val(results[CHOOSE k \in hits : \A j \in hits : k <= j].error).details.items)>>

\* llm_adapter.py 260-272: the items of the most recent order-creation confirmation error
PendingItems(results) ==
    LET hits == {k \in 1..Len(results) :
                    IsConfirmationRequired(results[k]) /\ Has(Val(results[k].error).details.items)}
    IN  IF hits = {} THEN <<>>
        ELSE <<Val(Val(results[CHOOSE k \in hits : \A j \in hits : j <= k].error).details.items)>>

\* llm_adapter.py 275-282: the order id of the most recent result that bears an order or a status
KnownOrderId(results) ==
    LET hits == {k \in 1..Len(results) : Has(results[k].order) \/ Has(results[k].status)}
    IN  IF hits = {} THEN <<>>
        ELSE LET r == results[CHOOSE k \in hits : \A j \in hits : j <= k]
             IN  IF Has(r.order) THEN <<Val(r.order).orderId>> ELSE <<Val(r.status).orderId>>

\* llm_adapter.py 258-294
ConfirmIntent(results) ==
    IF Has(PendingItems(results))
    THEN ToolAction("create_order",
                    [NoArgs EXCEPT !.items = PendingItems(results), !.confirmed = <<TRUE>>])
    ELSE IF ~Has(KnownOrderId(results)) \/ Val(KnownOrderId(results)) = ""
    THEN ToolAction("get_latest_order", NoArgs)
    ELSE ToolAction("request_order_cancellation",
                    [NoArgs EXCEPT !.order_id = KnownOrderId(results), !.confirmed = <<TRUE>>])

\* an add_order rule that submits the order as confirmed
AddOrderIntentConfirmed(user_text) ==
    LET items == _extract_order_items(user_text)
    IN  IF Len(items) = 0
        THEN AskUserAction(WhatToOrderQuestion)
        ELSE ToolAction("create_order",
                        [NoArgs EXCEPT !.items = <<items>>, !.confirmed = <<TRUE>>])

\* llm_adapter.py 240-255
AddOrderIntent(user_text) ==
    LET items == _extract_order_items(user_text)
    IN  IF Len(items) = 0
        THEN AskUserAction(WhatToOrderQuestion)
        ELSE ToolAction("create_order",
                        [NoArgs EXCEPT !.items = <<items>>, !.confirmed = <<FALSE>>])

GetOrderStatusOf(order) == ToolAction("get_order_status", [NoArgs EXCEPT !.order_id = <<order.orderId>>])

\* llm_adapter.py 297-313
ShowOrderIntent(last_result) ==
    IF Has(last_result.order)
    THEN FinalAction(LatestOrderMessage(Val(last_result.order)))
    ELSE ToolAction("get_latest_order", NoArgs)

\* llm_adapter.py 316-344
StatusIntent(last_result) ==
    IF Has(last_result.status)
    THEN FinalAction(StatusMessage(Val(last_result.status)))
    ELSE IF Has(last_result.order)
    THEN GetOrderStatusOf(Val(last_result.order))
    ELSE ToolAction("get_latest_order", NoArgs)

\* llm_adapter.py 347-380
CancelIntent(last_result) ==
    IF Has(last_result.status)
    THEN LET status == Val(last_result.status).status
         IN  IF status = "DELAYED" THEN AskUserAction(CancelDelayedQuestion)
             ELSE IF status = "CANCELLED" THEN FinalAction(CancelAlreadyMessage)
             ELSE FinalAction(NotCancellableMessage(status))
    ELSE IF Has(last_result.order)
    THEN IF Val(last_result.order).cancelled
         THEN FinalAction(CancelAlreadyMessage)
         ELSE GetOrderStatusOf(Val(last_result.order))
    ELSE ToolAction("get_latest_order", NoArgs)

\* a flow rule that cancels a delayed order without asking
FlowRuleCancelling(results, last_result) ==
    IF Has(last_result.order)
    THEN GetOrderStatusOf(Val(last_result.order))
    ELSE IF Has(last_result.status)
    THEN IF Val(last_result.status).status = "DELAYED"
         THEN ToolAction("request_order_cancellation",
                         [NoArgs EXCEPT !.order_id = <<Val(last_result.status).orderId>>,
                                        !.confirmed = <<TRUE>>])
         ELSE FinalAction(StatusIsMessage(Val(last_result.status).status))
    ELSE IF Len(results) = 0
    THEN ToolAction("get_latest_order", NoArgs)
    ELSE FinalAction(NotSureMessage)

\* llm_adapter.py 382-449: no intent decided; continue from the last tool result
FlowRule(results, last_result) ==
    IF Has(last_result.order)
    THEN GetOrderStatusOf(Val(last_result.order))
    ELSE IF Has(last_result.status)
    THEN IF Val(last_result.status).status = "DELAYED"
         THEN AskUserAction(LatestDelayedQuestion)
         ELSE FinalAction(StatusIsMessage(Val(last_result.status).status))
    ELSE IF Has(last_result.result) /\ IsDict(Val(last_result.result))
            /\ Val(last_result.result).status = "CANCELLED"
    THEN FinalAction(CancelledMessage)
    ELSE IF Has(last_result.result) /\ IsDict(Val(last_result.result))
            /\ Val(last_result.result).status = "ALREADY_CANCELLED"
    THEN FinalAction(AlreadyCancelledMessage)
    ELSE IF Len(results) = 0
    THEN ToolAction("get_latest_order", NoArgs)
    ELSE FinalAction(NotSureMessage)

\* a planner that remembers having answered: it greets only in its first call
next_action_remembering(user_text, results) ==
    LET intent == _detect_intent(user_text)
        last_result == LastResult(results)
    IN  IF Has(SuccessRule(user_text, intent, last_result))
        THEN Val(SuccessRule(user_text, intent, last_result))
        ELSE IF Has(PendingRule(intent, results))
        THEN Val(PendingRule(intent, results))
        ELSE IF intent = "greeting" /\ obs.planned = <<>> THEN FinalAction(GreetingMessage)
        ELSE IF intent \in {"greeting", "help"} THEN FinalAction(HelpMessage)
        ELSE IF intent = "decline" THEN FinalAction(DeclineMessage)
        ELSE IF intent = "add_order" THEN AddOrderIntent(user_text)
        ELSE IF intent = "confirm" THEN ConfirmIntent(results)
        ELSE IF intent = "show_order" THEN ShowOrderIntent(last_result)
        ELSE IF intent = "status" THEN StatusIntent(last_result)
        ELSE IF intent = "cancel" THEN CancelIntent(last_result)
        ELSE FlowRule(results, last_result)

\* RuleBasedPlanner.next_action
next_action(user_text, results) ==
    LET intent == _detect_intent(user_text)
        last_result == LastResult(results)
    IN  IF Has(SuccessRule(user_text, intent, last_result))
        THEN Val(SuccessRule(user_text, intent, last_result))
        ELSE IF Has(PendingRule(intent, results))
        THEN Val(PendingRule(intent, results))
        ELSE IF intent = "greeting" THEN FinalAction(GreetingMessage)
        ELSE IF intent = "help" THEN FinalAction(HelpMessage)
        ELSE IF intent = "decline" THEN FinalAction(DeclineMessage)
        ELSE IF intent = "add_order" THEN AddOrderIntent(user_text)
        ELSE IF intent = "confirm" THEN ConfirmIntent(results)
        ELSE IF intent = "show_order" THEN ShowOrderIntent(last_result)
        ELSE IF intent = "status" THEN StatusIntent(last_result)
        ELSE IF intent = "cancel" THEN CancelIntent(last_result)
        ELSE FlowRule(results, last_result)

----------------------------------------------------------------------------
(* backend/main.py: the system of record *)

\* price in cents and display name of each product of the catalog
PRODUCTS ==
    [widget |-> [name |-> "Widget", price |-> 2499],
     gadget |-> [name |-> "Gadget", price |-> 9999],
     gizmo |-> [name |-> "Gizmo", price |-> 4999],
     doohickey |-> [name |-> "Doohickey", price |-> 1999],
     thingamajig |-> [name |-> "Thingamajig", price |-> 7499]]

InitialOrders ==
    [id \in {"ORD-12345", "ORD-67890"} |->
        IF id = "ORD-12345"
        THEN [orderId |-> "ORD-12345", status |-> "DELAYED",
              items |-> <<[name |-> "Widget", qty |-> 2]>>, total |-> 4999, cancelled |-> FALSE]
        ELSE [orderId |-> "ORD-67890", status |-> "SHIPPED",
              items |-> <<[name |-> "Gadget", qty |-> 1]>>, total |-> 9999, cancelled |-> FALSE]]

\* the backend's state as one value
Backend(orders, latest) == [orders |-> orders, latest |-> latest]

\* an HTTP response and the backend state after the request
Response(code, body, be) == [code |-> code, body |-> body, be |-> be]

NoBody == EmptyResult

\* GET /v1/me/orders/latest
get_latest_order_endpoint(be) ==
    IF be.latest \in DOMAIN be.orders
    THEN Response(200, [EmptyResult EXCEPT !.order = <<be.orders[be.latest]>>], be)
    ELSE Response(404, NoBody, be)

\* a status endpoint that answers with the whole order under the key "order"
get_order_status_endpoint_whole(be, order_id) ==
    IF order_id \in DOMAIN be.orders
    THEN Response(200, [EmptyResult EXCEPT !.order = <<be.orders[order_id]>>], be)
    ELSE Response(404, NoBody, be)

\* GET /v1/orders/{order_id}/status
get_order_status_endpoint(be, order_id) ==
    IF order_id \in DOMAIN be.orders
    THEN Response(200,
                  [EmptyResult EXCEPT !.status =
                      <<[orderId |-> order_id, status |-> be.orders[order_id].status,
                         cancelled |-> be.orders[order_id].cancelled]>>],
                  be)
    ELSE Response(404, NoBody, be)

CancelBody(order_id, status, key) ==
    [EmptyResult EXCEPT !.result =
        <<[orderId |-> order_id, status |-> status, idempotencyKey |-> key, str |-> <<>>]>>]

\* POST /v1/orders/{order_id}/cancel
cancel_order(be, order_id, idempotency_key) ==
    IF order_id \notin DOMAIN be.orders
    THEN Response(404, NoBody, be)
    ELSE IF be.orders[order_id].cancelled
    THEN Response(200, CancelBody(order_id, "ALREADY_CANCELLED", idempotency_key), be)
    ELSE Response(200, CancelBody(order_id, "CANCELLED", idempotency_key),
                  Backend([be.orders EXCEPT ![order_id].cancelled = TRUE,
                                            ![order_id].status = "CANCELLED"],
                          be.latest))

KnownProduct(name) == Lower(name) \in DOMAIN PRODUCTS

RECURSIVE OrderTotal(_)
OrderTotal(items) ==
    IF Len(items) = 0 THEN 0
    ELSE PRODUCTS[Lower(items[1].product_name)].price * items[1].quantity + OrderTotal(Tail(items))

\* f @@ (k :> v) where k may already be in the domain of f
Put(f, k, v) == [x \in DOMAIN f \cup {k} |-> IF x = k THEN v ELSE f[x]]

\* POST /v1/orders; new_id is the identifier drawn by random.choices
create_order_endpoint(be, items, new_id) ==
    IF Len(items) = 0 \/ \E k \in 1..Len(items) : ~KnownProduct(items[k].product_name)
    THEN Response(400, NoBody, be)
    ELSE LET order ==
                 [orderId |-> new_id, status |-> "PROCESSING",
                  items |-> [k \in 1..Len(items) |->
                                [name |-> PRODUCTS[Lower(items[k].product_name)].name,
                                 qty |-> items[k].quantity]],
                  total |-> OrderTotal(items), cancelled |-> FALSE]
         IN  Response(200, [EmptyResult EXCEPT !.order = <<order>>],
                      Backend(Put(be.orders, new_id, order), new_id))

\* one HTTP request: op is the operation, a its argument record
Serve(be, op, a, new_id) ==
    IF op = "get_latest_order" THEN get_latest_order_endpoint(be)
    ELSE IF op = "get_order_status" THEN get_order_status_endpoint(be, a.order_id)
    ELSE IF op = "request_cancellation" THEN cancel_order(be, a.order_id, a.idempotency_key)
    ELSE create_order_endpoint(be, a.items, new_id)

----------------------------------------------------------------------------
(* mcp_server/backend_client.py: ExistingBackendClient *)

\* What can happen to one HTTP attempt:
\*   ok        the backend serves it and the response arrives
\*   conn      httpx.ConnectError: the backend never sees the request
\*   read      httpx.ReadError: the backend serves it, the response is lost
\*   ctimeout  httpx.ConnectTimeout: the backend never sees the request
\*   rtimeout  httpx.ReadTimeout: the backend serves it, the response is lost
AttemptOutcomes == {"ok", "conn", "read", "ctimeout", "rtimeout"}

Served(f) == f \in {"ok", "read", "rtimeout"}

IsTimeout(f) == f \in {"ctimeout", "rtimeout"}

\* the argument record of one backend operation
ReqArgs(order_id, idempotency_key, items) ==
    [order_id |-> order_id, idempotency_key |-> idempotency_key, items |-> items]

Mutating(op) == op \in {"request_cancellation", "create_order"}

\* the record of one request put on the wire
\* status is the HTTP status of the response, when one arrived
Request(op, a, f, resp) ==
    [op |-> op, order_id |-> a.order_id,
     key |-> IF op = "request_cancellation" THEN a.idempotency_key ELSE <<>>,
     outcome |-> f, served |-> Served(f),
     status |-> IF f = "ok" THEN <<resp.code>> ELSE <<>>]

\* ExistingBackendClient._raise_for_status
StatusToCode(code) ==
    IF code = 401 THEN "UNAUTHORIZED"
    ELSE IF code = 403 THEN "FORBIDDEN"
    ELSE IF code = 404 THEN "NOT_FOUND"
    ELSE "UPSTREAM_ERROR"

StatusMessageOf(code) ==
    IF code = 401 THEN "Unauthorized"
    ELSE IF code = 403 THEN "Forbidden"
    ELSE IF code = 404 THEN "Not found"
    ELSE "Backend error"

\* what a call of a client method ends with: kind is "return" (body is the JSON),
\* "ToolError" (code, message, status) or "TransportError" (an httpx exception)
Ended(kind, body, code, message, status, be, requests) ==
    [kind |-> kind, body |-> body, code |-> code, message |-> message, status |-> status,
     be |-> be, requests |-> requests]

\* what a client method makes of the response resp to a request under attempt outcome f
AttemptEnded(be, resp, f, sent) ==
    IF IsTimeout(f)
    THEN Ended("ToolError", NoBody, "UPSTREAM_TIMEOUT", "Backend timeout", <<>>,
               IF Served(f) THEN resp.be ELSE be, sent)
    ELSE IF f # "ok"
    THEN Ended("TransportError", NoBody, "", "", <<>>, IF Served(f) THEN resp.be ELSE be, sent)
    ELSE IF resp.code >= 400
    THEN Ended("ToolError", NoBody, StatusToCode(resp.code), StatusMessageOf(resp.code),
               IF StatusToCode(resp.code) = "UPSTREAM_ERROR" THEN <<resp.code>> ELSE <<>>,
               resp.be, sent)
    ELSE Ended("return", resp.body, "", "", <<>>, resp.be, sent)

\* the body of a client method, run once: one request under attempt outcome f
Attempt(be, op, a, f, new_id) ==
    The({AttemptEnded(be, resp, f, <<Request(op, a, f, resp)>>) : resp \in {Serve(be, op, a, new_id)}})

\* a retry condition that also retries the errors of _raise_for_status
ShouldRetryAnyError(ended) == ended.kind # "return"

\* tenacity: retry_if_exception_type((TimeoutException, TransportError))
ShouldRetry(ended) == ended.kind = "TransportError"

\* tenacity: stop_after_attempt(2)
MaxAttempts == 2

\* the @retry wrapper around the method body: a second attempt after a retryable first one
Retrying(be, op, a, faults, new_ids) ==
    The({IF ShouldRetry(e1)
         THEN The({[e2 EXCEPT !.requests = e1.requests \o e2.requests] :
                      e2 \in {Attempt(e1.be, op, a, faults[2], new_ids[2])}})
         ELSE e1 :
         e1 \in {Attempt(be, op, a, faults[1], new_ids[1])}})

\* a call of ExistingBackendClient.<op>
ClientCall(be, op, a, faults, new_ids) == Retrying(be, op, a, faults, new_ids)

----------------------------------------------------------------------------
(* mcp_server/server.py: the tools *)

AllScopes == {"order:read", "order:cancel", "order:write"}

\* Field(min_length=6, max_length=64)
ValidOrderId(order_id) == Len(order_id) >= 6 /\ Len(order_id) <= 64

\* Field(None, min_length=8, max_length=128)
ValidKey(key) == ~Has(key) \/ (Len(Val(key)) >= 8 /\ Len(Val(key)) <= 128)

\* OrderItemInput
ValidItem(item) ==
    /\ Len(item.product_name) >= 1 /\ Len(item.product_name) <= 100
    /\ item.quantity >= 1 /\ item.quantity <= 100

\* CreateOrderInput
ValidItems(items) ==
    /\ \A k \in 1..Len(items) : ValidItem(items[k])
    /\ Len(items) >= 1 /\ Len(items) <= 10

\* inp.confirmed (the tools that take no such argument are called without one)
Confirmed(args) == Has(args.confirmed) /\ Val(args.confirmed)

\* what a tool call ends with: the JSON result, the backend and the idempotency cache
\* after it, and the requests it put on the wire
ToolOutcome(result, be, idem, requests) ==
    [result |-> result, be |-> be, cache |-> idem, requests |-> requests]

\* require_scope raising ToolError("FORBIDDEN", ...)
Forbidden(required) == ErrorResult("FORBIDDEN", "Missing scope: " \o required, NoDetails)

\* structured_error of an exception that is no ToolError (pydantic's ValidationError,
\* an httpx exception that outlived the retries)
Unexpected == ErrorResult("UPSTREAM_ERROR", "Unexpected error", [NoDetails EXCEPT !.exception = <<"exception">>])

\* structured_error of what a client call ended with, when it did not return
ClientError(e) ==
    IF e.kind = "ToolError"
    THEN ErrorResult(e.code, e.message, [NoDetails EXCEPT !.status = e.status])
    ELSE Unexpected

\* json.dumps({"ok": True, <key>: <what the client returned>}), or the structured error
ReadOutcome(e, idem) ==
    IF e.kind = "return"
    THEN ToolOutcome([e.body EXCEPT !.ok = TRUE], e.be, idem, e.requests)
    ELSE ToolOutcome(ClientError(e), e.be, idem, e.requests)

\* tool get_latest_order
get_latest_order(scopes, be, idem, args, faults, new_ids) ==
    IF "order:read" \notin scopes
    THEN ToolOutcome(Forbidden("order:read"), be, idem, <<>>)
    ELSE The({ReadOutcome(e, idem) :
                 e \in {ClientCall(be, "get_latest_order", ReqArgs("", <<>>, <<>>), faults, new_ids)}})

\* a get_order_status that validates its input before it looks at the scopes
get_order_status_validating(scopes, be, idem, args, faults, new_ids) ==
    IF ~Has(args.order_id) \/ ~ValidOrderId(Val(args.order_id))
    THEN ToolOutcome(Unexpected, be, idem, <<>>)
    ELSE IF "order:read" \notin scopes
    THEN ToolOutcome(Forbidden("order:read"), be, idem, <<>>)
    ELSE The({ReadOutcome(e, idem) :
                 e \in {ClientCall(be, "get_order_status", ReqArgs(Val(args.order_id), <<>>, <<>>),
                                   faults, new_ids)}})

\* tool get_order_status
get_order_status(scopes, be, idem, args, faults, new_ids) ==
    IF "order:read" \notin scopes
    THEN ToolOutcome(Forbidden("order:read"), be, idem, <<>>)
    ELSE IF ~Has(args.order_id) \/ ~ValidOrderId(Val(args.order_id))
    THEN ToolOutcome(Unexpected, be, idem, <<>>)
    ELSE The({ReadOutcome(e, idem) :
                 e \in {ClientCall(be, "get_order_status", ReqArgs(Val(args.order_id), <<>>, <<>>),
                                   faults, new_ids)}})

\* f"cancel:{inp.order_id}:{key}"
CacheKey(order_id, key) == "cancel:" \o order_id \o ":" \o key

CancelConfirmationRequired(order_id) ==
    ErrorResult("CONFIRMATION_REQUIRED", "Cancellation requires explicit confirmation.",
                [NoDetails EXCEPT !.order_id = <<order_id>>,
                                  !.required = <<[confirmed |-> TRUE]>>])

\* a cancellation whose result is returned but not stored
CancelOutcomeNotStored(e, idem, key, cache_key) ==
    IF e.kind = "return"
    THEN ToolOutcome([e.body EXCEPT !.ok = TRUE, !.idempotency_key = <<key>>],
                     e.be, idem, e.requests)
    ELSE ToolOutcome(ClientError(e), e.be, idem, e.requests)

\* server.py 157-168: the result is cached and returned, or the structured error
CancelOutcome(e, idem, key, cache_key) ==
    IF e.kind = "return"
    THEN ToolOutcome([e.body EXCEPT !.ok = TRUE, !.idempotency_key = <<key>>],
                     e.be, Put(idem, cache_key, Val(e.body.result)), e.requests)
    ELSE ToolOutcome(ClientError(e), e.be, idem, e.requests)

\* tool request_order_cancellation; uuid is the value uuid.uuid4() would return
request_order_cancellation(scopes, be, idem, args, faults, new_ids, uuid) ==
    IF "order:cancel" \notin scopes
    THEN ToolOutcome(Forbidden("order:cancel"), be, idem, <<>>)
    ELSE IF ~ValidOrderId(Val(args.order_id)) \/ ~ValidKey(args.idempotency_key)
    THEN ToolOutcome(Unexpected, be, idem, <<>>)
    ELSE IF ~Confirmed(args)
    THEN ToolOutcome(CancelConfirmationRequired(Val(args.order_id)), be, idem, <<>>)
    ELSE LET key == IF Has(args.idempotency_key) /\ Val(args.idempotency_key) # ""
                    THEN Val(args.idempotency_key) ELSE uuid
             cache_key == CacheKey(Val(args.order_id), key)
         IN  IF cache_key \in DOMAIN idem
             THEN ToolOutcome([EmptyResult EXCEPT !.ok = TRUE, !.result = <<idem[cache_key]>>,
                                                  !.idempotency_key = <<key>>],
                              be, idem, <<>>)
             ELSE The({CancelOutcome(e, idem, key, cache_key) :
                          e \in {ClientCall(be, "request_cancellation",
                                            ReqArgs(Val(args.order_id), <<key>>, <<>>),
                                            faults, new_ids)}})

\* a confirmation error that does not carry the items
CreateConfirmationWithoutItems(items) ==
    ErrorResult("CONFIRMATION_REQUIRED",
                "Please confirm you want to place an order for: " \o ItemsSummary(items),
                [NoDetails EXCEPT !.required = <<[confirmed |-> TRUE]>>])

\* server.py 188-198
CreateConfirmationRequired(items) ==
    ErrorResult("CONFIRMATION_REQUIRED",
                "Please confirm you want to place an order for: " \o ItemsSummary(items),
                [NoDetails EXCEPT !.items = <<items>>, !.required = <<[confirmed |-> TRUE]>>])

\* create_order without the confirmation gate
create_order_ungated(scopes, be, idem, args, faults, new_ids) ==
    IF "order:write" \notin scopes
    THEN ToolOutcome(Forbidden("order:write"), be, idem, <<>>)
    ELSE IF ~ValidItems(Val(args.items))
    THEN ToolOutcome(Unexpected, be, idem, <<>>)
    ELSE The({ReadOutcome(e, idem) :
                 e \in {ClientCall(be, "create_order", ReqArgs("", <<>>, Val(args.items)),
                                   faults, new_ids)}})

\* tool create_order
create_order(scopes, be, idem, args, faults, new_ids) ==
    IF "order:write" \notin scopes
    THEN ToolOutcome(Forbidden("order:write"), be, idem, <<>>)
    ELSE IF ~ValidItems(Val(args.items))
    THEN ToolOutcome(Unexpected, be, idem, <<>>)
    ELSE IF ~Confirmed(args)
    THEN ToolOutcome(CreateConfirmationRequired(Val(args.items)), be, idem, <<>>)
    ELSE The({ReadOutcome(e, idem) :
                 e \in {ClientCall(be, "create_order", ReqArgs("", <<>>, Val(args.items)),
                                   faults, new_ids)}})

\* the tool server serving one call
CallTool(tool, scopes, be, idem, args, faults, new_ids, uuid) ==
    IF tool = "get_latest_order" THEN get_latest_order(scopes, be, idem, args, faults, new_ids)
    ELSE IF tool = "get_order_status"
    THEN get_order_status(scopes, be, idem, args, faults, new_ids)
    ELSE IF tool = "request_order_cancellation"
    THEN request_order_cancellation(scopes, be, idem, args, faults, new_ids, uuid)
    ELSE create_order(scopes, be, idem, args, faults, new_ids)

----------------------------------------------------------------------------
(* Bounds and inputs *)

\* turns per behaviour
MaxTurns == 2

\* transport faults per behaviour
MaxFaults == 1

\* agent.py MAX_STEPS
MAX_STEPS == 6

\* what the user may say
Utterances ==
    {"Hello", "Cancel my delayed order", "Cancel my order", "Yes, cancel it", "yes", "no",
     "Order 2 widgets", "What is my order status?"}

\* the scope lists the callers of run_agent pass: app.py DEFAULT_SCOPES, eval_harness.py run_test
ScopeSets == {AllScopes, {"order:read", "order:cancel"}}

\* the identifiers random.choices may draw in the backend's create_order
OrderIdPool == {"ORD-12345", "ORD-00001", "ORD-00002"}

\* the identifiers the (at most two) attempts of one tool call may draw: only the backend's
\* create_order draws any
NewIds(tool) ==
    IF tool = "create_order" THEN OrderIdPool \X OrderIdPool ELSE {<<"ORD-00001", "ORD-00001">>}

\* the outcomes of the (at most two) attempts of one client call, within a budget of faults
FaultPatterns(budget) ==
    {p \in AttemptOutcomes \X AttemptOutcomes :
        /\ (p[1] \in {"conn", "read"} \/ p[2] = "ok")
        /\ Cardinality({k \in 1..2 : p[k] # "ok"}) <= budget}

\* the faults that happened among the requests sent
FaultsIn(requests, p) == Cardinality({k \in 1..Len(requests) : p[k] # "ok"})

\* the changes of ORDERS between two backend states
WritesBetween(before, after, t) ==
    IF before = after THEN <<>>
    ELSE <<[turn |-> t, created |-> DOMAIN after.orders \ DOMAIN before.orders,
            changed |-> {id \in DOMAIN before.orders : after.orders[id] # before.orders[id]}]>>

NoObs ==
    [calls |-> <<>>, tools |-> <<>>, requests |-> <<>>,
     before |-> Backend(InitialOrders, "ORD-12345"), planned |-> <<>>, raised |-> ""]

----------------------------------------------------------------------------
(* agent_service/agent.py: run_agent, one step at a time *)

\* the state after construction: the backend's module-level data; no turn is running
Init ==
    /\ ORDERS = InitialOrders
    /\ LATEST_ORDER_ID = "ORD-12345"
    /\ SCOPES \in ScopeSets
    /\ cache = [k \in {} |-> 0]
    /\ session = <<>>
    /\ stored = <<>>
    /\ conn = {}
    /\ pc = "idle"
    /\ step = 0
    /\ user_message = ""
    /\ current_user_text = ""
    /\ tool_results = <<>>
    /\ action = NoAction
    /\ reply = <<>>
    /\ turn = 0
    /\ said = <<>>
    /\ fault_count = 0
    /\ uuids = 0
    /\ writes = <<>>
    /\ obs = NoObs
    /\ tasks = <<>>
    /\ heap = <<>>

\* what McpConnection.connect enters into its exit stack, in order (mcp_client.py 41-47)
Held == <<"stdio", "session">>

\* tool_results = tool_results or []: a non-empty list passed in is the caller's own list
Aliased == session # <<>>

\* run_agent is called with message u: lines 51-52.  tool_results is the caller's stored
\* history; a tool server spawned by the call starts with an empty idempotency cache.
Enter(u, raised, limit) ==
    /\ pc = "idle"
    /\ turn < limit
    /\ turn' = turn + 1
    /\ said' = Append(said, u)
    /\ user_message' = u
    /\ current_user_text' = u
    /\ session' = stored
    /\ tool_results' = stored
    /\ cache' = [k \in {} |-> 0]
    /\ step' = 0
    /\ action' = NoAction
    /\ reply' = <<>>
    /\ obs' = [NoObs EXCEPT !.before = Backend(ORDERS, LATEST_ORDER_ID),
                            !.planned = obs.planned, !.raised = raised]
    /\ UNCHANGED <<tasks, heap, ORDERS, LATEST_ORDER_ID, SCOPES, stored, fault_count, uuids, writes>>

\* run_agent is entered and the connection is established: lines 51-66
Connected(u, limit) ==
    /\ Enter(u, "", limit)
    /\ conn' = {Held[k] : k \in 1..Len(Held)}
    /\ pc' = "plan"

StartTurn(u) == Connected(u, MaxTurns)

\* run_agent is entered and conn.connect raises (lines 54-62, outside the try) after having
\* entered the first n contexts of its exit stack; conn.close() is not reached
ConnectFails(u) ==
    /\ Enter(u, "connect", MaxTurns)
    /\ \E n \in 0..Len(Held) : conn' = {Held[k] : k \in 1..n}
    /\ pc' = "raised"

\* one call of planner.next_action: its arguments and what it returned
PlannerCall(text, results, a) ==
    [text |-> text, history |-> results, action |-> a, turn |-> turn]

StepLimitMessage ==
    "I couldn't complete that safely within the step limit. Please try again with more details."

\* a loop that runs one pass too many
LoopExhaustedLate(n) == n > MAX_STEPS

\* for step in range(MAX_STEPS): the loop is over
LoopExhausted(n) == n >= MAX_STEPS

\* one pass of the for loop up to the tool call (lines 68-85), or the loop running out
\* (107-110); a return runs the finally clause (111-112), which closes the connection
Plan ==
    /\ pc = "plan"
    /\ IF LoopExhausted(step)
       THEN /\ reply' = <<StepLimitMessage>>
            /\ pc' = "done" /\ conn' = {}
            /\ UNCHANGED <<action, obs>>
       ELSE LET a == next_action(current_user_text, tool_results)
                c == PlannerCall(current_user_text, tool_results, a)
            IN  /\ obs' = [obs EXCEPT !.calls = Append(@, c), !.planned = Append(@, c)]
                /\ action' = a
                /\ IF a.type = "tool"
                   THEN pc' = "call" /\ reply' = reply /\ conn' = conn
                   ELSE pc' = "done" /\ reply' = <<a.text>> /\ conn' = {}
    /\ UNCHANGED <<tasks, heap, ORDERS, LATEST_ORDER_ID, SCOPES, cache, session, stored, step, user_message,
                   current_user_text, tool_results, turn, said, fault_count, uuids, writes>>

\* a loop that does not stop at a confirmation request
AfterToolContinues(result) ==
    /\ tool_results' = Append(tool_results, result)
    /\ stored' = IF Aliased THEN Append(stored, result) ELSE stored
    /\ pc' = "plan" /\ step' = step + 1 /\ current_user_text' = ""

\* a loop that plans again on the user's message after a tool call
AfterToolKeepingText(result) ==
    /\ tool_results' = Append(tool_results, result)
    /\ stored' = IF Aliased THEN Append(stored, result) ELSE stored
    /\ IF IsConfirmationRequired(result)
       THEN pc' = "confirm" /\ UNCHANGED <<step, current_user_text>>
       ELSE pc' = "plan" /\ step' = step + 1 /\ UNCHANGED current_user_text

\* a loop that keeps only the latest result
AfterToolKeepingLatest(result) ==
    /\ tool_results' = <<result>>
    /\ stored' = IF Aliased THEN <<result>> ELSE stored
    /\ IF IsConfirmationRequired(result)
       THEN pc' = "confirm" /\ UNCHANGED <<step, current_user_text>>
       ELSE pc' = "plan" /\ step' = step + 1 /\ current_user_text' = ""

\* lines 87-105 after the tool has answered with result; the append at 88 is made to the
\* caller's list when that is the list run_agent works on
AfterTool(result) ==
    /\ tool_results' = Append(tool_results, result)
    /\ stored' = IF Aliased THEN Append(stored, result) ELSE stored
    /\ IF IsConfirmationRequired(result)
       THEN pc' = "confirm" /\ UNCHANGED <<step, current_user_text>>
       ELSE pc' = "plan" /\ step' = step + 1 /\ current_user_text' = ""

FreshUuid == "uuid4-" \o ToString(uuids)

\* What session.call_tool hands back to McpConnection.call_tool: a first content block
\* whose text is the JSON of value, a first content block whose text is not JSON, or no
\* usable content block
JsonResponse(value) == [kind |-> "json", value |-> value, text |-> ""]

TextResponse(text) == [kind |-> "text", value |-> EmptyResult, text |-> text]

EmptyResponse == [kind |-> "empty", value |-> EmptyResult, text |-> ""]

\* the string "completed" under the key "result"
Completed == [orderId |-> "", status |-> "", idempotencyKey |-> <<>>, str |-> <<"completed">>]

\* mcp_client.py 65-76: what McpConnection.call_tool returns once session.call_tool has
\* returned resp
call_tool(resp) ==
    IF resp.kind = "json" THEN resp.value
    ELSE IF resp.kind = "text" THEN [EmptyResult EXCEPT !.ok = TRUE, !.raw = <<resp.text>>]
    ELSE [EmptyResult EXCEPT !.ok = TRUE, !.result = <<Completed>>]

\* request_order_cancellation draws a uuid4 when it gets past the gate without a key
DrawsUuid(a) ==
    /\ a.tool = "request_order_cancellation"
    /\ "order:cancel" \in SCOPES
    /\ ValidOrderId(Val(a.args.order_id)) /\ ValidKey(a.args.idempotency_key)
    /\ Confirmed(a.args)
    /\ ~Has(a.args.idempotency_key)

\* one tool call as observed: what was asked, what it put on the wire, what it answered,
\* and whether it changed the system of record
ToolCallRecord(a, out) ==
    [tool |-> a.tool, args |-> a.args, requests |-> out.requests, result |-> out.result,
     wrote |-> out.be # Backend(ORDERS, LATEST_ORDER_ID), turn |-> turn,
     response |-> JsonResponse(out.result)]

\* the effect of one tool call on the tool server, the backend and the observations
Served_(a, out, p) ==
    /\ ORDERS' = out.be.orders
    /\ LATEST_ORDER_ID' = out.be.latest
    /\ cache' = out.cache
    /\ fault_count' = fault_count + FaultsIn(out.requests, p)
    /\ uuids' = IF DrawsUuid(a) THEN uuids + 1 ELSE uuids
    /\ writes' = writes \o WritesBetween(Backend(ORDERS, LATEST_ORDER_ID), out.be, turn)
    /\ obs' = [obs EXCEPT !.tools = Append(@, ToolCallRecord(a, out)),
                          !.requests = @ \o out.requests,
                          !.before = Backend(ORDERS, LATEST_ORDER_ID)]

\* line 87: conn.call_tool(action.tool, action.args), served by the tool server
Call ==
    /\ pc = "call"
    /\ \E p \in FaultPatterns(MaxFaults - fault_count), new_ids \in NewIds(action.tool) :
          \E out \in {CallTool(action.tool, SCOPES, Backend(ORDERS, LATEST_ORDER_ID), cache,
                              action.args, p, new_ids, FreshUuid)} :
              /\ FaultsIn(out.requests, p) = Cardinality({k \in 1..2 : p[k] # "ok"})
              /\ Served_(action, out, p)
              /\ AfterTool(call_tool(JsonResponse(out.result)))
    /\ UNCHANGED <<tasks, heap, SCOPES, session, conn, user_message, action, reply, turn, said>>

GenericConfirmationPrompt == "I need your confirmation to proceed. Reply \"Yes\" to confirm."

\* lines 97-102: the planner is asked for the confirmation question
Confirm ==
    /\ pc = "confirm"
    /\ LET a == next_action("", tool_results)
           c == PlannerCall("", tool_results, a)
       IN  /\ obs' = [obs EXCEPT !.calls = Append(@, c), !.planned = Append(@, c)]
           /\ reply' = IF a.type = "ask_user" THEN <<a.text>> ELSE <<GenericConfirmationPrompt>>
    /\ pc' = "done" /\ conn' = {}
    /\ UNCHANGED <<tasks, heap, ORDERS, LATEST_ORDER_ID, SCOPES, cache, session, stored, step, user_message,
                   current_user_text, tool_results, action, turn, said, fault_count, uuids, writes>>

\* run_agent returns (reply, tool_results); the caller keeps the returned history
\* (eval_harness.py 66-73, app.py 93)
EndTurn ==
    /\ pc = "done"
    /\ session' = tool_results
    /\ stored' = tool_results
    /\ pc' = "idle"
    /\ UNCHANGED <<tasks, heap, ORDERS, LATEST_ORDER_ID, SCOPES, cache, conn, step, user_message,
                   current_user_text, tool_results, action, reply, turn, said, fault_count, uuids,
                   writes, obs>>

Next ==
    \/ \E u \in Utterances : StartTurn(u)
    \/ Plan
    \/ Call
    \/ Confirm
    \/ EndTurn

Spec == Init /\ [][Next]_vars

----------------------------------------------------------------------------
(* A longer conversation of one session over a transport without faults *)

\* turns per conversation
MaxTalk == 3

\* all scopes are granted (app.py DEFAULT_SCOPES) and no transport fault is left to happen
InitTalk ==
    /\ ORDERS = InitialOrders
    /\ LATEST_ORDER_ID = "ORD-12345"
    /\ SCOPES = AllScopes
    /\ cache = [k \in {} |-> 0]
    /\ session = <<>>
    /\ stored = <<>>
    /\ conn = {}
    /\ pc = "idle"
    /\ step = 0
    /\ user_message = ""
    /\ current_user_text = ""
    /\ tool_results = <<>>
    /\ action = NoAction
    /\ reply = <<>>
    /\ turn = 0
    /\ said = <<>>
    /\ fault_count = MaxFaults
    /\ uuids = 0
    /\ writes = <<>>
    /\ obs = NoObs
    /\ tasks = <<>>
    /\ heap = <<>>

TalkTurn(u) == Connected(u, MaxTalk)

NextTalk ==
    \/ \E u \in Utterances : TalkTurn(u)
    \/ Plan
    \/ Call
    \/ Confirm
    \/ EndTurn

SpecTalk == InitTalk /\ [][NextTalk]_vars

----------------------------------------------------------------------------
(* The loop of run_agent against a tool side that may answer anything *)

DelayedOrder == InitialOrders["ORD-12345"]

\* results a tool side may send: the shapes of server.py, and shapes it never sends
ArbResults ==
    {[EmptyResult EXCEPT !.ok = TRUE, !.order = <<DelayedOrder>>],
     [EmptyResult EXCEPT !.ok = TRUE, !.order = <<[DelayedOrder EXCEPT !.status = "PROCESSING"]>>],
     [EmptyResult EXCEPT !.ok = TRUE,
                         !.status = <<[orderId |-> "ORD-12345", status |-> "DELAYED",
                                       cancelled |-> FALSE]>>],
     CreateConfirmationRequired(<<[product_name |-> "widget", quantity |-> 2]>>),
     CancelConfirmationRequired("ORD-12345"),
     [CancelConfirmationRequired("ORD-12345") EXCEPT
         !.ok = TRUE,
         !.result = <<[orderId |-> "ORD-12345", status |-> "CANCELLED",
                       idempotencyKey |-> <<>>, str |-> <<>>]>>],
     ErrorResult("NOT_FOUND", "Not found", NoDetails)}

\* an order of two lines
TwoLines ==
    <<[product_name |-> "gadget", quantity |-> 3], [product_name |-> "widget", quantity |-> 1]>>

\* what create_order(confirmed=true) returns for two widgets placed as ORD-00001
PlacedOrder ==
    [create_order_endpoint(Backend(InitialOrders, "ORD-12345"),
                           <<[product_name |-> "widget", quantity |-> 2]>>,
                           "ORD-00001").body EXCEPT !.ok = TRUE]

\* histories that turns of run_agent leave behind: an order of two lines offered; an order
\* offered after another; an order offered and placed; an order offered, two confirmed
\* create_order calls that ended in a backend timeout, then the latest order shown and its
\* status read; and one that only another caller of the tools leaves behind: an order
\* offered, the latest order shown, and a cancellation of it left to confirm
LongerHistories ==
    {<<CreateConfirmationRequired(TwoLines)>>,
     <<CreateConfirmationRequired(<<[product_name |-> "widget", quantity |-> 2]>>),
       CreateConfirmationRequired(TwoLines)>>,
     <<CreateConfirmationRequired(<<[product_name |-> "widget", quantity |-> 2]>>), PlacedOrder>>,
     <<CreateConfirmationRequired(<<[product_name |-> "widget", quantity |-> 2]>>),
       ErrorResult("UPSTREAM_TIMEOUT", "Backend timeout", NoDetails),
       ErrorResult("UPSTREAM_TIMEOUT", "Backend timeout", NoDetails),
       [EmptyResult EXCEPT !.ok = TRUE, !.order = <<DelayedOrder>>],
       [EmptyResult EXCEPT !.ok = TRUE,
                           !.status = <<[orderId |-> "ORD-12345", status |-> "DELAYED",
                                         cancelled |-> FALSE]>>]>>,
     <<CreateConfirmationRequired(<<[product_name |-> "widget", quantity |-> 2]>>),
       [EmptyResult EXCEPT !.ok = TRUE, !.order = <<DelayedOrder>>],
       CancelConfirmationRequired("ORD-12345")>>}

\* the histories a caller may pass in
IncomingHistories ==
    {<<>>} \cup {<<r>> : r \in ArbResults} \cup LongerHistories

\* one turn is run, on any incoming history
InitLoop ==
    /\ ORDERS = InitialOrders
    /\ LATEST_ORDER_ID = "ORD-12345"
    /\ SCOPES = AllScopes
    /\ cache = [k \in {} |-> 0]
    /\ session \in IncomingHistories
    /\ stored = session
    /\ conn = {}
    /\ pc = "idle"
    /\ step = 0
    /\ user_message = ""
    /\ current_user_text = ""
    /\ tool_results = <<>>
    /\ action = NoAction
    /\ reply = <<>>
    /\ turn = MaxTurns - 1
    /\ said = <<>>
    /\ fault_count = 0
    /\ uuids = 0
    /\ writes = <<>>
    /\ obs = NoObs
    /\ tasks = <<>>
    /\ heap = <<>>

\* what the MCP session may hand back: any result as JSON, the text the MCP framework
\* sends for a call it rejects itself, or nothing usable
ArbResponses ==
    {JsonResponse(r) : r \in ArbResults}
        \cup {TextResponse("Error executing tool: 1 validation error"), EmptyResponse}

\* line 87: conn.call_tool(action.tool, action.args), answered with any response
CallAny ==
    /\ pc = "call"
    /\ \E resp \in ArbResponses :
          \E r \in {call_tool(resp)} :
              /\ AfterTool(r)
              /\ obs' = [obs EXCEPT !.tools =
                            Append(@, [tool |-> action.tool, args |-> action.args,
                                       requests |-> <<>>, result |-> r, wrote |-> FALSE,
                                       turn |-> turn, response |-> resp])]
    /\ UNCHANGED <<tasks, heap, ORDERS, LATEST_ORDER_ID, SCOPES, cache, session, conn, user_message, action,
                   reply, turn, said, fault_count, uuids, writes>>

\* line 87: session.call_tool raises (mcp_client.py 63, the pipe to the tool server broke
\* or the request timed out); nothing is appended, the finally clause closes the connection
\* and the exception leaves run_agent
CallRaises ==
    /\ pc = "call"
    /\ pc' = "raised"
    /\ conn' = {}
    /\ obs' = [obs EXCEPT !.raised = "call_tool"]
    /\ UNCHANGED <<tasks, heap, ORDERS, LATEST_ORDER_ID, SCOPES, cache, session, stored, step, user_message,
                   current_user_text, tool_results, action, reply, turn, said, fault_count,
                   uuids, writes>>

\* app.py 98-100: the exception becomes an HTTP 500; session["tool_results"] is not assigned
Abort ==
    /\ pc = "raised"
    /\ pc' = "idle"
    /\ UNCHANGED <<tasks, heap, ORDERS, LATEST_ORDER_ID, SCOPES, cache, session, stored, conn, step,
                   user_message, current_user_text, tool_results, action, reply, turn, said,
                   fault_count, uuids, writes, obs>>

NextLoop ==
    \/ \E u \in Utterances : StartTurn(u)
    \/ \E u \in Utterances : ConnectFails(u)
    \/ Plan
    \/ CallAny
    \/ CallRaises
    \/ Confirm
    \/ EndTurn
    \/ Abort

SpecLoop == InitLoop /\ [][NextLoop]_vars

----------------------------------------------------------------------------
(* One turn on any incoming history, served by the four tools *)

\* the quantities asked for in "Order n <product>s"
OrderQuantities == {1, 2, 100}

\* "Order n <product>s" for every product of the catalog
OrderUtterances ==
    {"Order " \o ToString(n) \o " " \o AVAILABLE_PRODUCTS[k] \o "s" :
        n \in OrderQuantities, k \in 1..Len(AVAILABLE_PRODUCTS)}

\* orders with no number, with a number away from the product, with a number after the
\* product, and with numbers beyond the clamp
QuantityUtterances ==
    {"Order widgets", "Buy a gadget for my 3 kids", "I want gizmos x3",
     "Order 101 gadgets", "Order 250 widgets and gadget", "Order 2 widgets and 1 gadget"}

\* the messages of one turn: one more per intent the conversations above leave out, the
\* planner's confirm and decline sets, and the orders
TurnUtterances ==
    Utterances \cup {"Show my latest order", "help", "What is the weather?"}
        \cup ConfirmSet \cup DeclineSet \cup OrderUtterances \cup QuantityUtterances

NextTurn ==
    \/ \E u \in TurnUtterances : StartTurn(u)
    \/ Plan
    \/ Call
    \/ Confirm
    \/ EndTurn

SpecTurn == InitLoop /\ [][NextTurn]_vars

----------------------------------------------------------------------------
(* The tool server called directly by an MCP client *)

\* tool calls per behaviour
MaxCalls == 2

\* the scope lists a client may have been given
ToolScopeSets == {AllScopes, {"order:read"}, {}}

Widgets(n) == <<[product_name |-> "widget", quantity |-> n]>>

CancelArgs(order_id, confirmed, key) ==
    [NoArgs EXCEPT !.order_id = <<order_id>>, !.confirmed = confirmed, !.idempotency_key = key]

CreateArgs(items, confirmed) == [NoArgs EXCEPT !.items = <<items>>, !.confirmed = confirmed]

\* the calls a client may make: well-formed and ill-formed, confirmed and not (the
\* signatures of the mutating tools require the argument confirmed)
ToolInvocations ==
    {ToolAction("get_latest_order", NoArgs),
     ToolAction("get_order_status", [NoArgs EXCEPT !.order_id = <<"ORD-12345">>]),
     ToolAction("get_order_status", [NoArgs EXCEPT !.order_id = <<"ORD">>]),
     ToolAction("request_order_cancellation", CancelArgs("ORD-12345", <<FALSE>>, <<>>)),
     ToolAction("request_order_cancellation", CancelArgs("ORD-12345", <<TRUE>>, <<"key-0001">>)),
     ToolAction("request_order_cancellation", CancelArgs("ORD-99999", <<TRUE>>, <<"key-0001">>)),
     ToolAction("request_order_cancellation", CancelArgs("ORD", <<FALSE>>, <<>>)),
     ToolAction("create_order", CreateArgs(Widgets(2), <<FALSE>>)),
     ToolAction("create_order", CreateArgs(Widgets(2), <<TRUE>>)),
     ToolAction("create_order", CreateArgs(Widgets(0), <<FALSE>>))}

\* a tool server has been started for a client; no call has been made
InitTools ==
    /\ ORDERS = InitialOrders
    /\ LATEST_ORDER_ID = "ORD-12345"
    /\ SCOPES \in ToolScopeSets
    /\ cache = [k \in {} |-> 0]
    /\ session = <<>>
    /\ stored = <<>>
    /\ conn = {}
    /\ pc = "serving"
    /\ step = 0
    /\ user_message = ""
    /\ current_user_text = ""
    /\ tool_results = <<>>
    /\ action = NoAction
    /\ reply = <<>>
    /\ turn = 1
    /\ said = <<>>
    /\ fault_count = 0
    /\ uuids = 0
    /\ writes = <<>>
    /\ obs = NoObs
    /\ tasks = <<>>
    /\ heap = <<>>

\* one tool call served: server.py call_tool dispatch to the tool function
Invoke(a) ==
    /\ pc = "serving"
    /\ Len(obs.tools) < MaxCalls
    /\ \E p \in FaultPatterns(MaxFaults - fault_count), new_ids \in NewIds(a.tool) :
          \E out \in {CallTool(a.tool, SCOPES, Backend(ORDERS, LATEST_ORDER_ID), cache,
                              a.args, p, new_ids, FreshUuid)} :
              /\ FaultsIn(out.requests, p) = Cardinality({k \in 1..2 : p[k] # "ok"})
              /\ Served_(a, out, p)
    /\ UNCHANGED <<tasks, heap, SCOPES, session, stored, conn, pc, step, user_message, current_user_text,
                   tool_results,
                   action, reply, turn, said>>

\* the tool server process ends and a new one is started (agent.py spawns one per turn):
\* the module-level _idempotency_cache starts empty, the backend keeps its data
Restart ==
    /\ pc = "serving"
    /\ turn < MaxTurns
    /\ obs.tools # <<>>
    /\ obs.tools[Len(obs.tools)].turn = turn
    /\ turn' = turn + 1
    /\ cache' = [k \in {} |-> 0]
    /\ UNCHANGED <<tasks, heap, ORDERS, LATEST_ORDER_ID, SCOPES, session, stored, conn, pc, step,
                   user_message, current_user_text, tool_results, action, reply, said,
                   fault_count, uuids, writes, obs>>

NextTools ==
    \/ \E a \in ToolInvocations : Invoke(a)
    \/ Restart

SpecTools == InitTools /\ [][NextTools]_vars

----------------------------------------------------------------------------
(* Claims about the loop *)

\* the results of the tool calls of the current turn, in order
TurnResults == [k \in 1..Len(obs.tools) |-> obs.tools[k].result]

LastCall == obs.calls[Len(obs.calls)]

\* C1 as stated: in every turn next_action is called at most 6 times, counting every call.
C1_AtMostSixPlannerCalls == Len(obs.calls) <= MAX_STEPS

\* C1, amended: in every turn the loop calls next_action at most 6 times and invokes at
\* most 6 tools; the only further call is the one made for a CONFIRMATION_REQUIRED result,
\* so at most 7 calls are made; and a turn whose 6 passes all ended in a tool call that did
\* not ask for confirmation returns the fixed step-limit message with the incoming history
\* followed by the 6 results.
C1_PlannerCallsBounded ==
    /\ Len(obs.tools) <= MAX_STEPS
    /\ Len(obs.calls) <= Len(obs.tools) + 1
    /\ Len(obs.calls) > MAX_STEPS =>
          /\ pc \in {"done", "idle"}
          /\ IsConfirmationRequired(obs.tools[MAX_STEPS].result)
    /\ (pc = "done" /\ step = MAX_STEPS) =>
          /\ reply = <<StepLimitMessage>>
          /\ Len(obs.calls) = MAX_STEPS
          /\ tool_results = session \o TurnResults
    /\ (pc = "done" /\ reply = <<StepLimitMessage>>) => step = MAX_STEPS

\* a turn has run out of steps and returned the step-limit message
C1_Witness ==
    /\ pc = "done" /\ reply = <<StepLimitMessage>>
    /\ Len(obs.tools) = MAX_STEPS /\ Len(session) = 1

\* C5: once a tool result of the turn is an error with code CONFIRMATION_REQUIRED, no
\* further tool is invoked in the turn; the planner is called exactly once more, with empty
\* text and the history that ends with that result; and the reply is the question of the
\* AskUser it returns, or the fixed generic prompt when it returns anything else.
C5_ConfirmationEndsTurn ==
    \A k \in 1..Len(obs.tools) :
        IsConfirmationRequired(obs.tools[k].result) =>
            /\ k = Len(obs.tools)
            /\ pc \in {"confirm", "done", "idle"}
            /\ tool_results[Len(tool_results)] = obs.tools[k].result
            /\ pc = "confirm" => Len(obs.calls) = Len(obs.tools)
            /\ pc \in {"done", "idle"} =>
                  /\ Len(obs.calls) = Len(obs.tools) + 1
                  /\ LastCall.text = ""
                  /\ LastCall.history = tool_results
                  /\ reply = IF LastCall.action.type = "ask_user"
                             THEN <<LastCall.action.text>>
                             ELSE <<GenericConfirmationPrompt>>

\* a turn ended on a confirmation request after an earlier tool call, and the planner did
\* not return an AskUser
C5_Witness ==
    /\ pc = "done"
    /\ Len(obs.tools) >= 2
    /\ IsConfirmationRequired(obs.tools[Len(obs.tools)].result)
    /\ reply = <<GenericConfirmationPrompt>>

----------------------------------------------------------------------------
(* Claims about the tools *)

MutatingTools == {"create_order", "request_order_cancellation"}

\* the scope a tool requires
RequiredScope(tool) ==
    IF tool = "create_order" THEN "order:write"
    ELSE IF tool = "request_order_cancellation" THEN "order:cancel"
    ELSE "order:read"

\* the arguments pass the validation of the tool's input model
ValidArgs(tool, args) ==
    IF tool = "create_order" THEN Has(args.items) /\ ValidItems(Val(args.items))
    ELSE IF tool = "request_order_cancellation"
    THEN Has(args.order_id) /\ ValidOrderId(Val(args.order_id)) /\ ValidKey(args.idempotency_key)
    ELSE IF tool = "get_order_status"
    THEN Has(args.order_id) /\ ValidOrderId(Val(args.order_id))
    ELSE TRUE

\* a call of a mutating tool with confirmed false or absent
Unconfirmed(c) == c.tool \in MutatingTools /\ ~Confirmed(c.args)

ErrorCode(r) == IF Has(r.error) THEN Val(r.error).code ELSE ""

\* C2: a call of create_order or request_order_cancellation with confirmed=false sends no
\* request to the backend and leaves the orders of the system of record as they were.
C2_UnconfirmedNeverMutates ==
    \A k \in 1..Len(obs.tools) :
        Unconfirmed(obs.tools[k]) => obs.tools[k].requests = <<>> /\ ~obs.tools[k].wrote

\* an admitted, well-formed create_order with confirmed=false was served and the orders are
\* the initial ones
C2_Witness ==
    /\ \E k \in 1..Len(obs.tools) :
          /\ obs.tools[k].tool = "create_order"
          /\ obs.tools[k].args.confirmed = <<FALSE>>
          /\ IsConfirmationRequired(obs.tools[k].result)
    /\ ORDERS = InitialOrders

\* the details of a confirmation error carry what the resubmission needs
CarriesResubmission(c) ==
    LET details == Val(c.result.error).details
    IN  IF c.tool = "create_order"
        THEN details.items = c.args.items
        ELSE details.order_id = c.args.order_id

\* C3 as stated: every call of a mutating tool with confirmed=false returns the error
\* CONFIRMATION_REQUIRED whose details carry the items, or the order id.
C3_EveryUnconfirmedCallAsks ==
    \A k \in 1..Len(obs.tools) :
        Unconfirmed(obs.tools[k]) =>
            /\ IsConfirmationRequired(obs.tools[k].result)
            /\ CarriesResubmission(obs.tools[k])

\* C3, amended: a call of a mutating tool with confirmed=false whose scope is granted and
\* whose arguments are valid returns the error CONFIRMATION_REQUIRED whose details carry the
\* items, or the order id; without the scope it returns FORBIDDEN, and with the scope but
\* invalid arguments UPSTREAM_ERROR.
C3_AdmittedUnconfirmedCallAsks ==
    \A k \in 1..Len(obs.tools) :
        LET c == obs.tools[k]
        IN  Unconfirmed(c) =>
                /\ ~c.result.ok
                /\ IF RequiredScope(c.tool) \notin SCOPES THEN ErrorCode(c.result) = "FORBIDDEN"
                   ELSE IF ~ValidArgs(c.tool, c.args) THEN ErrorCode(c.result) = "UPSTREAM_ERROR"
                   ELSE IsConfirmationRequired(c.result) /\ CarriesResubmission(c)

\* both mutating tools have answered an admitted unconfirmed call
C3_Witness ==
    \E i, j \in 1..Len(obs.tools) :
        /\ obs.tools[i].tool = "create_order"
        /\ obs.tools[j].tool = "request_order_cancellation"
        /\ IsConfirmationRequired(obs.tools[i].result)
        /\ IsConfirmationRequired(obs.tools[j].result)

\* two confirmed cancellations with the same order id and the same idempotency key
Replayed(c, d) ==
    /\ c.tool = "request_order_cancellation" /\ d.tool = "request_order_cancellation"
    /\ Confirmed(c.args) /\ Confirmed(d.args)
    /\ Has(c.args.idempotency_key)
    /\ c.args.idempotency_key = d.args.idempotency_key
    /\ c.args.order_id = d.args.order_id

\* the j-th call of the behaviour replays the i-th, and no call between them has changed
\* the system of record
ReplayOf(i, j) ==
    /\ i < j /\ Replayed(obs.tools[i], obs.tools[j])
    /\ \A m \in (i + 1)..(j - 1) : ~obs.tools[m].wrote

\* the terminal status a result reports: the status of the cancellation, or the error code
TerminalStatus(r) == IF r.ok THEN Val(r.result).status ELSE ErrorCode(r)

----------------------------------------------------------------------------
(* Claims about the turns *)

WidgetOrder == ToolAction("create_order", CreateArgs(Widgets(2), <<FALSE>>))

\* the writes of the current turn
TurnWrites == {k \in 1..Len(writes) : writes[k].turn = turn}

\* C4 as stated: a planner action with confirmed=true comes only from a call whose text is
\* a confirmation; a call whose text is an add_order utterance returns create_order with
\* confirmed=false; every write happens in a turn whose utterance is a confirmation.
C4_AddOrderAlwaysCreates ==
    /\ \A k \in 1..Len(obs.calls) :
          LET c == obs.calls[k]
          IN  /\ (c.action.type = "tool" /\ Confirmed(c.action.args)) =>
                     _detect_intent(c.text) = "confirm"
              /\ _detect_intent(c.text) = "add_order" =>
                     /\ c.action.type = "tool" /\ c.action.tool = "create_order"
                     /\ c.action.args.confirmed = <<FALSE>>
    /\ \A k \in 1..Len(writes) : _detect_intent(said[writes[k].turn]) = "confirm"

\* C4, amended: a planner action with confirmed=true comes only from a call whose text is
\* a confirmation; a call whose text is an add_order utterance returns create_order with
\* the extracted items and confirmed=false when no CONFIRMATION_REQUIRED is among the last
\* two results and an item was found, and an AskUser otherwise; every confirmed tool call
\* and every write happens in a turn whose utterance is a confirmation.
C4_ConfirmedOnlyOnConfirm ==
    /\ \A k \in 1..Len(obs.calls) :
          LET c == obs.calls[k]
              items == _extract_order_items(c.text)
          IN  /\ (c.action.type = "tool" /\ Confirmed(c.action.args)) =>
                     _detect_intent(c.text) = "confirm"
              /\ _detect_intent(c.text) = "add_order" =>
                     IF Has(PendingRule("add_order", c.history)) \/ items = <<>>
                     THEN c.action.type = "ask_user"
                     ELSE c.action = ToolAction("create_order", CreateArgs(items, <<FALSE>>))
    /\ \A k \in 1..Len(obs.tools) :
          Confirmed(obs.tools[k].args) => _detect_intent(user_message) = "confirm"
    /\ \A k \in 1..Len(writes) : _detect_intent(said[writes[k].turn]) = "confirm"

\* an order was created by a confirmed create_order, in the turn after the add_order turn
C4_Witness ==
    /\ Len(said) = 2 /\ _detect_intent(said[1]) = "add_order"
    /\ \E k \in 1..Len(obs.tools) :
          /\ obs.tools[k].tool = "create_order"
          /\ Confirmed(obs.tools[k].args)
          /\ obs.tools[k].wrote
    /\ writes # <<>>

\* C6 as stated: after "Cancel my order" and then "Yes, cancel it", on an empty history and
\* without transport faults, the second reply contains "cancelled" and exactly one write
\* has cancelled the order.
C6_YesCancelItCancels ==
    (pc = "done" /\ said = <<"Cancel my order", "Yes, cancel it">> /\ fault_count = 0) =>
        /\ Contains(Lower(Val(reply)), "cancelled")
        /\ Cardinality({k \in 1..Len(writes) : "ORD-12345" \in writes[k].changed}) = 1
        /\ ORDERS["ORD-12345"].cancelled

\* C7 as stated: "Cancel my delayed order" on an empty history, without transport faults,
\* calls get_latest_order and then get_order_status and ends with an AskUser whose text
\* contains "confirm" and "cancel".
C7_CancelDelayedAsksToConfirm ==
    (pc = "done" /\ said = <<"Cancel my delayed order">> /\ fault_count = 0) =>
        /\ [k \in 1..Len(obs.tools) |-> obs.tools[k].tool] = <<"get_latest_order", "get_order_status">>
        /\ LastCall.action.type = "ask_user"
        /\ reply = <<LastCall.action.text>>
        /\ Contains(Lower(Val(reply)), "confirm")
        /\ Contains(Lower(Val(reply)), "cancel")

\* C8 as stated: "Order 2 widgets" on an empty history: the first planner action is
\* create_order of 2 widget with confirmed=false, the turn ends with an AskUser that asks
\* to confirm "2x widget", and no order is created.
C8_OrderTwoWidgetsAsks ==
    (pc = "done" /\ user_message = "Order 2 widgets" /\ session = <<>>) =>
        /\ obs.calls[1].action = WidgetOrder
        /\ LastCall.action.type = "ask_user"
        /\ reply = <<LastCall.action.text>>
        /\ Contains(Val(reply), "2x widget")
        /\ TurnWrites = {}

\* C8, amended: "Order 2 widgets" on an empty history: the first planner action is
\* create_order of 2 widget with confirmed=false and no order is created; when the scope
\* order:write is granted the turn ends with the AskUser that asks to confirm "2x widget",
\* and when it is not the tool answers FORBIDDEN and the turn ends with the Final
\* "not sure" message.
C8_OrderTwoWidgetsAsksWithScope ==
    (pc = "done" /\ user_message = "Order 2 widgets" /\ session = <<>>) =>
        /\ obs.calls[1].text = "Order 2 widgets"
        /\ obs.calls[1].action = WidgetOrder
        /\ obs.tools[1].requests = <<>>
        /\ TurnWrites = {}
        /\ IF "order:write" \in SCOPES
           THEN /\ Len(obs.tools) = 1 /\ IsConfirmationRequired(obs.tools[1].result)
                /\ LastCall.action = AskUserAction(OrderConfirmQuestion(Widgets(2)))
                /\ reply = <<LastCall.action.text>>
                /\ Contains(Val(reply), "2x widget")
                /\ Contains(Lower(Val(reply)), "confirm")
           ELSE /\ Len(obs.tools) = 1 /\ ErrorCode(obs.tools[1].result) = "FORBIDDEN"
                /\ LastCall.action = FinalAction(NotSureMessage)
                /\ reply = <<NotSureMessage>>

\* the turn of "Order 2 widgets" has ended with the question, the scope being granted
C8_Witness ==
    /\ pc = "done" /\ user_message = "Order 2 widgets" /\ session = <<>>
    /\ "order:write" \in SCOPES
    /\ reply = <<OrderConfirmQuestion(Widgets(2))>>

\* C9: "Hello" on an empty history: the turn ends after one planner call, which returns a
\* Final whose message lists the four capabilities, and no tool is called.
C9_GreetingEndsTurn ==
    (pc = "done" /\ user_message = "Hello" /\ session = <<>>) =>
        /\ Len(obs.calls) = 1
        /\ obs.calls[1].text = "Hello" /\ obs.calls[1].history = <<>>
        /\ obs.calls[1].action.type = "final"
        /\ reply = <<obs.calls[1].action.text>>
        /\ Contains(Val(reply), "Check your order status")
        /\ Contains(Val(reply), "Show your latest order details")
        /\ Contains(Val(reply), "Cancel delayed orders")
        /\ Contains(Val(reply), "Place a new order")
        /\ obs.tools = <<>>
        /\ tool_results = <<>>

\* the turn of "Hello" on an empty history has ended
C9_Witness ==
    /\ pc = "done" /\ user_message = "Hello" /\ session = <<>>
    /\ reply = <<GreetingMessage>>

----------------------------------------------------------------------------
(* The confirm utterance replays the pending order *)

\* the positions of history that hold an order-creation confirmation error
OrderOffers(history) ==
    {j \in 1..Len(history) :
        /\ Has(history[j].error)
        /\ Val(history[j].error).code = "CONFIRMATION_REQUIRED"
        /\ Has(Val(history[j].error).details.items)}

IsConfirmText(text) == _detect_intent(text) = "confirm"

\* C11: a planner call whose text is a confirm utterance and whose history holds an
\* order-creation CONFIRMATION_REQUIRED error returns create_order with confirmed=true and
\* with items equal to details.items of the most recent such error: the same lines, with
\* the same products and quantities, in the same order.
C11_ReplayedItemsExact ==
    \A k \in 1..Len(obs.calls) :
        LET c == obs.calls[k]
        IN  (IsConfirmText(c.text) /\ OrderOffers(c.history) # {}) =>
                \E j \in OrderOffers(c.history) :
                    /\ \A i \in OrderOffers(c.history) : i <= j
                    /\ c.action.type = "tool"
                    /\ c.action.tool = "create_order"
                    /\ c.action.args.confirmed = <<TRUE>>
                    /\ c.action.args.items = Val(c.history[j].error).details.items

\* "yes" has replayed the later of two offers, an order of two lines
C11_Witness ==
    /\ Len(obs.calls) > 0
    /\ IsConfirmText(obs.calls[1].text)
    /\ Cardinality(OrderOffers(obs.calls[1].history)) = 2
    /\ obs.calls[1].action.type = "tool"
    /\ obs.calls[1].action.tool = "create_order"
    /\ obs.calls[1].action.args.confirmed = <<TRUE>>
    /\ obs.calls[1].action.args.items = <<TwoLines>>

----------------------------------------------------------------------------
(* Retried requests *)

\* C12 as stated: one call of a mutating tool with confirmed=true changes the system of
\* record at most once, also when the backend client sends the request again after a
\* transport failure of a request the backend had served: no call creates more than one
\* order.
C12_EffectAppliedAtMostOnce ==
    \A k \in 1..Len(writes) : Cardinality(writes[k].created) <= 1

----------------------------------------------------------------------------
(* The lifetime of the connection to the tool server *)

\* C13 as stated: whenever an invocation of run_agent has ended, by a return, by the step
\* limit, by an exception inside the loop or by an exception while connecting, nothing of
\* what it acquired of the tool subprocess and session is still held.
C13_ReleasedOnEveryExit == pc \in {"done", "raised", "idle"} => conn = {}

----------------------------------------------------------------------------
(* What McpConnection.call_tool makes of a response *)

\* C14 as stated: call_tool never raises; a response whose text is not JSON and a response
\* that carries an error reported by the tool each give a result with ok false and an
\* error; and
\* the result {ok: true, result: "completed"} is given for an empty response only.
C14_CallToolNeverRaises ==
    /\ obs.raised # "call_tool"
    /\ \A k \in 1..Len(obs.tools) :
          LET t == obs.tools[k]
          IN  /\ t.response.kind = "text" => (~t.result.ok /\ Has(t.result.error))
              /\ (t.response.kind = "json" /\ ~t.response.value.ok
                      /\ Has(t.response.value.error)) =>
                     (~t.result.ok /\ t.result.error = t.response.value.error)
              /\ (t.result.ok /\ t.result.result = <<Completed>>) => t.response.kind = "empty"

----------------------------------------------------------------------------
(* The history passed in by the caller *)

\* C15 as stated: from its call until the caller takes over the returned history, run_agent
\* leaves the list it was passed as it was; in particular, after a turn that ended with an
\* exception the stored tool_results of the session is what it was before the turn.
C15_PassedHistoryUnmodified ==
    pc \in {"plan", "call", "confirm", "done", "raised"} => stored = session

----------------------------------------------------------------------------
(* Scopes *)

\* C16: a call of any of the four tools whose required scope (order:read for
\* get_latest_order and get_order_status, order:cancel for request_order_cancellation,
\* order:write for create_order) is not granted returns an error with code FORBIDDEN, has
\* sent no request to the backend and has changed nothing, whatever its other arguments.
C16_MissingScopeForbidden ==
    \A k \in 1..Len(obs.tools) :
        LET t == obs.tools[k]
        IN  RequiredScope(t.tool) \notin SCOPES =>
                /\ ~t.result.ok
                /\ ErrorCode(t.result) = "FORBIDDEN"
                /\ t.requests = <<>>
                /\ ~t.wrote

\* without any scope, a get_order_status with an order id that fails validation and a
\* well-formed confirmed create_order have both been refused
C16_Witness ==
    /\ SCOPES = {}
    /\ Len(obs.tools) = 2
    /\ obs.tools[1].tool = "get_order_status"
    /\ ~ValidArgs("get_order_status", obs.tools[1].args)
    /\ obs.tools[2].tool = "create_order"
    /\ Confirmed(obs.tools[2].args) /\ ValidArgs("create_order", obs.tools[2].args)
    /\ \A k \in 1..2 : ErrorCode(obs.tools[k].result) = "FORBIDDEN"
    /\ ORDERS = InitialOrders

----------------------------------------------------------------------------
(* The planner as a function *)

----------------------------------------------------------------------------
(* After the pending order has been placed *)

\* the positions of history that hold an order-creation confirmation error which is
\* followed at once by the result of a create_order that placed the order
PlacedOffers(history) ==
    {j \in OrderOffers(history) :
        /\ j < Len(history)
        /\ history[j + 1].ok
        /\ Has(history[j + 1].order)
        /\ Val(history[j + 1].order).status = "PROCESSING"}

\* C18 as stated: a planner call whose history holds an order offer that was followed by a
\* successful confirmed create_order does not return the confirmation question for that
\* order, whatever the utterance.
C18_NoStaleConfirmation ==
    \A k \in 1..Len(obs.calls) :
        \A j \in PlacedOffers(obs.calls[k].history) :
            obs.calls[k].action # ConfirmationQuestion(obs.calls[k].history[j])

\* C19 as stated: no executed create_order(confirmed=true) carries the items of an order
\* offer that the history given to the planner shows as already placed: one confirmation
\* prompt leads to at most one placement, also when the user confirms once more.
C19_PlacedOrderNotReplayed ==
    \A k \in 1..Len(obs.tools) :
        \A j \in PlacedOffers(obs.calls[k].history) :
            ~ /\ obs.tools[k].tool = "create_order"
              /\ Confirmed(obs.tools[k].args)
              /\ obs.tools[k].args.items = Val(obs.calls[k].history[j].error).details.items

----------------------------------------------------------------------------
(* What a confirm utterance executes *)

\* the history ends with the DELAYED status of an order and no confirmation error is among
\* its last two results: the turn that left it ended with the offer to cancel that order
CancellationOffered(history) ==
    /\ Len(history) > 0
    /\ Has(history[Len(history)].status)
    /\ Val(history[Len(history)].status).status = "DELAYED"
    /\ \A j \in 1..Len(history) :
          j >= Len(history) - 1 =>
             ~(Has(history[j].error) /\ Val(history[j].error).code = "CONFIRMATION_REQUIRED")

\* C20 as stated: a planner call whose text is a confirm utterance and whose history was
\* left by a turn that ended with a cancellation offer returns
\* request_order_cancellation(confirmed=true) for the order of the offer, and not
\* create_order, also when the history holds an older order-creation confirmation error.
C20_ConfirmExecutesLastOffer ==
    \A k \in 1..Len(obs.calls) :
        LET c == obs.calls[k]
        IN  (IsConfirmText(c.text) /\ CancellationOffered(c.history)) =>
                /\ c.action.type = "tool"
                /\ c.action.tool = "request_order_cancellation"
                /\ c.action.args.order_id = <<Val(c.history[Len(c.history)].status).orderId>>
                /\ c.action.args.confirmed = <<TRUE>>

----------------------------------------------------------------------------
(* Declined orders *)

\* the planner call c replays the order offer at position j of its history
Replays(c, j) ==
    /\ c.action.type = "tool"
    /\ c.action.tool = "create_order"
    /\ c.action.args.confirmed = <<TRUE>>
    /\ j \in OrderOffers(c.history)
    /\ \A i \in OrderOffers(c.history) : i <= j
    /\ c.action.args.items = Val(c.history[j].error).details.items

\* the planner call d answered a decline utterance with the decline message while the
\* order offer at position j was in its history
Declined(d, j) ==
    /\ _detect_intent(d.text) = "decline"
    /\ d.action = FinalAction(DeclineMessage)
    /\ j \in OrderOffers(d.history)

\* C21 as stated: once the user has declined a pending order, no planner call of a later
\* turn replays that order as create_order(confirmed=true).
C21_DeclinedOrderNotPlaced ==
    \A k, m \in 1..Len(obs.planned) :
        \A j \in 1..Len(obs.planned[k].history) :
            ~ /\ k < m
              /\ obs.planned[k].turn < obs.planned[m].turn
              /\ Declined(obs.planned[k], j)
              /\ Replays(obs.planned[m], j)

----------------------------------------------------------------------------
(* Which orders are sent for cancellation *)

\* what the result r tells about the status of order id, if anything
StatusTold(r, id) ==
    IF Has(r.status) /\ Val(r.status).orderId = id THEN <<Val(r.status).status>>
    ELSE IF Has(r.order) /\ Val(r.order).orderId = id THEN <<Val(r.order).status>>
    ELSE IF Has(r.result) /\ ~Has(Val(r.result).str) /\ Val(r.result).orderId = id
    THEN <<Val(r.result).status>>
    ELSE <<>>

\* the most recent status of order id known from history, if any
KnownStatus(history, id) ==
    LET told == {j \in 1..Len(history) : StatusTold(history[j], id) # <<>>}
    IN  IF told = {} THEN <<>>
        ELSE StatusTold(history[CHOOSE j \in told : \A i \in told : i <= j], id)

\* C22 as stated: every request_order_cancellation(confirmed=true) the planner emits is for
\* an order whose most recent status known from the history it was given is DELAYED.
C22_OnlyDelayedCancelled ==
    \A k \in 1..Len(obs.planned) :
        LET c == obs.planned[k]
        IN  (c.action.type = "tool" /\ c.action.tool = "request_order_cancellation"
                /\ c.action.args.confirmed = <<TRUE>>) =>
               KnownStatus(c.history, Val(c.action.args.order_id)) = <<"DELAYED">>

----------------------------------------------------------------------------
(* Which confirmation error a confirm utterance answers *)

\* the positions of history that hold a CONFIRMATION_REQUIRED error of either kind
ConfirmationErrors(history) ==
    {j \in 1..Len(history) :
        Has(history[j].error) /\ Val(history[j].error).code = "CONFIRMATION_REQUIRED"}

\* the positions of history that hold an order or a status
OrderBearing(history) ==
    {j \in 1..Len(history) : Has(history[j].order) \/ Has(history[j].status)}

\* the order id of the result r that holds an order or a status
OrderIdOf(r) == IF Has(r.order) THEN Val(r.order).orderId ELSE Val(r.status).orderId

----------------------------------------------------------------------------
(* Looking up the latest order *)

\* the tool call t was answered as the tool server answers it when nothing fails
AnsweredInKind(t) ==
    IF t.tool = "get_latest_order" THEN t.result.ok /\ Has(t.result.order)
    ELSE IF t.tool = "get_order_status" THEN t.result.ok /\ Has(t.result.status)
    ELSE TRUE

\* C24 as stated: a turn on an empty history whose utterance has intent show_order, status
\* or cancel, and whose tool calls are answered without failure, has called
\* get_latest_order and then get_order_status and nothing else when it ends, and ends
\* with an AskUser when the status read is DELAYED and with a Final otherwise.
C24_LookupThenStatus ==
    (/\ pc = "done"
     /\ session = <<>>
     /\ _detect_intent(user_message) \in {"show_order", "status", "cancel"}
     /\ \A k \in 1..Len(obs.tools) : AnsweredInKind(obs.tools[k])) =>
        /\ [k \in 1..Len(obs.tools) |-> obs.tools[k].tool]
              = <<"get_latest_order", "get_order_status">>
        /\ LastCall.action.type =
              IF Val(obs.tools[2].result.status).status = "DELAYED" THEN "ask_user" ELSE "final"

----------------------------------------------------------------------------
(* The history of a turn *)

\* C25: throughout a turn, and when it returns, the history is the incoming history
\* followed by one entry per tool invocation of the turn so far, in invocation order: no
\* earlier entry is changed, moved or removed, and a planner call adds nothing.
C25_HistoryAppendOnly ==
    pc \in {"plan", "call", "confirm", "done"} =>
        /\ Len(tool_results) = Len(session) + Len(obs.tools)
        /\ \A j \in 1..Len(session) : tool_results[j] = session[j]
        /\ \A k \in 1..Len(obs.tools) : tool_results[Len(session) + k] = obs.tools[k].result

\* a turn on a history that was not empty has made two tool calls and more planner calls
\* than that, and has returned
C25_Witness ==
    /\ pc = "done"
    /\ Len(session) > 0
    /\ Len(obs.tools) = 2
    /\ Len(obs.calls) = 3
    /\ obs.tools[1].result # obs.tools[2].result
    /\ tool_results = session \o <<obs.tools[1].result, obs.tools[2].result>>

----------------------------------------------------------------------------
(* Attempts of the backend client *)

\* C26 as stated: a client call sends at most two requests, and it sends a second one
\* whenever the first attempt ended in a timeout or another transport failure.
C26_RetriedOnceOnTransportFailure ==
    \A k \in 1..Len(obs.tools) :
        LET sent == obs.tools[k].requests
        IN  /\ Len(sent) <= 2
            /\ (Len(sent) >= 1 /\ sent[1].outcome # "ok") => Len(sent) = 2

\* the error codes ExistingBackendClient._raise_for_status maps HTTP statuses to
HttpErrorCodes == {"UNAUTHORIZED", "FORBIDDEN", "NOT_FOUND", "UPSTREAM_ERROR"}

\* the request was answered with an HTTP error status
HttpError(rq) == Has(rq.status) /\ Val(rq.status) >= 400

\* C27: a request answered with an HTTP error status (4xx/5xx) is never retried: it is the
\* last request of its call, it is the only one unless a transport failure preceded it,
\* and the call fails with the code the status maps to.
C27_HttpErrorNotRetried ==
    \A k \in 1..Len(obs.tools) :
        LET t == obs.tools[k]
        IN  \A j \in 1..Len(t.requests) :
                HttpError(t.requests[j]) =>
                    /\ j = Len(t.requests)
                    /\ (j = 1 \/ t.requests[1].outcome \in {"conn", "read"})
                    /\ ~t.result.ok
                    /\ ErrorCode(t.result) = StatusToCode(Val(t.requests[j].status))
                    /\ ErrorCode(t.result) \in HttpErrorCodes

\* a cancellation of an unknown order was answered 404 and failed NOT_FOUND after the
\* single request
C27_Witness ==
    \E k \in 1..Len(obs.tools) :
        LET t == obs.tools[k]
        IN  /\ t.tool = "request_order_cancellation"
            /\ Len(t.requests) = 1
            /\ t.requests[1].status = <<404>>
            /\ ErrorCode(t.result) = "NOT_FOUND"

----------------------------------------------------------------------------
(* Validation of the tool arguments *)

\* C28 as stated: a tool call whose scope is granted and whose arguments fail the validation
\* of the input model sends no request to the backend and returns the error
\* VALIDATION_FAILED.
C28_InvalidArgsValidationFailed ==
    \A k \in 1..Len(obs.tools) :
        LET t == obs.tools[k]
        IN  (RequiredScope(t.tool) \in SCOPES /\ ~ValidArgs(t.tool, t.args)) =>
                /\ t.requests = <<>>
                /\ ~t.result.ok
                /\ ErrorCode(t.result) = "VALIDATION_FAILED"

----------------------------------------------------------------------------
(* Idempotency keys on the wire *)

MutatingOps == {"request_cancellation", "create_order"}

\* C29 as stated: every request of a mutating operation carries an idempotency key, the
\* caller's one when the call supplied one, and the requests of one call carry the same key.
C29_MutatingRequestsCarryKey ==
    \A k \in 1..Len(obs.tools) :
        LET t == obs.tools[k]
        IN  \A j \in 1..Len(t.requests) :
                t.requests[j].op \in MutatingOps =>
                    /\ Has(t.requests[j].key)
                    /\ Has(t.args.idempotency_key) => t.requests[j].key = t.args.idempotency_key
                    /\ t.requests[j].key = t.requests[1].key

----------------------------------------------------------------------------
(* Failed tool calls in the loop *)

\* a failed result with a code other than CONFIRMATION_REQUIRED
FailedResult(r) == ~r.ok /\ Has(r.error) /\ Val(r.error).code # "CONFIRMATION_REQUIRED"

\* C30: after a tool call of the turn has returned a failed result whose code is not
\* CONFIRMATION_REQUIRED, the next planner action is Final or AskUser and the turn makes no
\* further tool call.
C30_FailedCallEndsToolUse ==
    \A k \in 1..Len(obs.tools) :
        FailedResult(obs.tools[k].result) =>
            /\ k = Len(obs.tools)
            /\ Len(obs.calls) > k => obs.calls[k + 1].action.type \in {"final", "ask_user"}

\* a second tool call of a turn has failed and the turn has ended on the planner's answer
C30_Witness ==
    /\ pc = "done"
    /\ Len(obs.tools) = 2
    /\ FailedResult(obs.tools[2].result)
    /\ Len(obs.calls) = 3
    /\ obs.calls[3].action.type = "final"

----------------------------------------------------------------------------
(* The length of a turn *)

\* C31: with the rule-based planner and the four tools a turn makes at most 3 planner
\* calls and at most 2 tool calls, and it never returns the step-limit message.
C31_TurnWithinThreeCalls ==
    /\ Len(obs.calls) <= 3
    /\ Len(obs.tools) <= 2
    /\ reply # <<StepLimitMessage>>

\* a turn on a history of five results has ended after 3 planner calls and 2 tool calls
C31_Witness ==
    /\ pc = "done"
    /\ Len(session) = 5
    /\ Len(obs.calls) = 3
    /\ Len(obs.tools) = 2
    /\ obs.tools[1].tool = "get_latest_order"
    /\ obs.tools[2].tool = "get_order_status"

----------------------------------------------------------------------------
(* Mutating tools in a turn *)

ReadTools == {"get_latest_order", "get_order_status"}

\* C32: a mutating tool is invoked only by the first planner call of a turn, the one made
\* on the user's message, so at most once per turn; the planner calls made with empty text
\* return read tools only.
C32_MutationOnlyAtFirstStep ==
    /\ \A k \in 1..Len(obs.tools) : obs.tools[k].tool \in MutatingTools => k = 1
    /\ \A k \in 1..Len(obs.calls) :
          (k > 1 /\ obs.calls[k].action.type = "tool") =>
              /\ obs.calls[k].text = ""
              /\ obs.calls[k].action.tool \in ReadTools

\* a turn has invoked a mutating tool first and a turn before it a read tool in a
\* continuation step
C32_Witness ==
    /\ Len(obs.tools) >= 1
    /\ obs.tools[1].tool \in MutatingTools
    /\ Confirmed(obs.tools[1].args)
    /\ Len(obs.calls) = 2
    /\ obs.calls[2].text = ""
    /\ \E c \in 1..Len(obs.planned) :
          /\ obs.planned[c].turn < turn
          /\ obs.planned[c].text = ""
          /\ obs.planned[c].action.type = "tool"
          /\ obs.planned[c].action.tool = "get_order_status"

----------------------------------------------------------------------------
(* After a declined order *)

\* C33 as stated: once the user has declined a pending order, a planner call of a later
\* turn whose utterance has intent status, show_order or cancel is not answered with the
\* confirmation question of that order.
C33_DeclinedOfferUnblocks ==
    \A k, m \in 1..Len(obs.planned) :
        \A j \in 1..Len(obs.planned[k].history) :
            ~ /\ k < m
              /\ obs.planned[k].turn < obs.planned[m].turn
              /\ Declined(obs.planned[k], j)
              /\ _detect_intent(obs.planned[m].text) \in {"status", "show_order", "cancel"}
              /\ obs.planned[m].action = ConfirmationQuestion(obs.planned[m].history[j])

----------------------------------------------------------------------------
(* Reporting a placed order *)

\* the reply of the turn reports a placed order
ReportsPlacement == Has(reply) /\ StartsWith(Val(reply), "Order placed successfully!")

\* C34 as stated: a turn that ends with the "Order placed successfully!" message has made
\* a create_order call with confirmed=true that succeeded.
C34_PlacedOnlyAfterCreate ==
    (pc = "done" /\ ReportsPlacement) =>
        \E k \in 1..Len(obs.tools) :
            /\ obs.tools[k].tool = "create_order"
            /\ Confirmed(obs.tools[k].args)
            /\ obs.tools[k].result.ok

----------------------------------------------------------------------------
(* The tool server's event loop with several invocations in flight *)

\* invocations one tool server process takes on per behaviour
MaxTasks == 2

\* the cancellations an MCP client may have in flight at once; all carry their key
RaceInvocations ==
    {ToolAction("request_order_cancellation", CancelArgs("ORD-12345", <<TRUE>>, <<"key-0001">>)),
     ToolAction("request_order_cancellation", CancelArgs("ORD-12345", <<TRUE>>, <<"key-0002">>)),
     ToolAction("request_order_cancellation", CancelArgs("ORD-12345", <<FALSE>>, <<"key-0001">>))}

\* the indices of the invocations that are suspended at an await
InFlight == {k \in 1..Len(tasks) : tasks[k].at = "awaiting"}

\* one invocation of a tool handler: overlapped holds the invocations that were in flight
\* when it arrived
Task(a, at, result, requests) ==
    [call |-> a, at |-> at, overlapped |-> InFlight, result |-> result, requests |-> requests]

\* server.py 119-154: an invocation arrives and its handler runs up to its first await, the
\* call of backend.request_cancellation; it returns before that when the scope, the
\* validation, the gate or the idempotency cache decides the call
Arrive(a) ==
    /\ pc = "serving"
    /\ Len(tasks) < MaxTasks
    /\ \E new_ids \in NewIds(a.tool) :
          \E early \in {request_order_cancellation(SCOPES, Backend(ORDERS, LATEST_ORDER_ID),
                                                   cache, a.args, <<"ok", "ok">>, new_ids,
                                                   FreshUuid)} :
              IF early.requests = <<>>
              THEN /\ Served_(a, early, <<"ok", "ok">>)
                   /\ tasks' = Append(tasks, Task(a, "returned", <<early.result>>, <<>>))
              ELSE /\ tasks' = Append(tasks, Task(a, "awaiting", <<>>, <<>>))
                   /\ UNCHANGED <<ORDERS, LATEST_ORDER_ID, cache, fault_count, uuids, writes,
                                  obs>>
    /\ UNCHANGED <<heap, SCOPES, session, stored, conn, pc, step, user_message,
                   current_user_text, tool_results, action, reply, turn, said>>

\* server.py 154-168: the awaited client call of invocation i is carried out and the
\* handler resumes: it stores the result under its cache key and returns
Respond(i) ==
    /\ pc = "serving"
    /\ i \in InFlight
    /\ \E p \in FaultPatterns(MaxFaults - fault_count), new_ids \in NewIds(tasks[i].call.tool) :
          LET a == tasks[i].call
              order_id == Val(a.args.order_id)
              key == Val(a.args.idempotency_key)
          IN  \E out \in {The({CancelOutcome(e, cache, key, CacheKey(order_id, key)) :
                                  e \in {ClientCall(Backend(ORDERS, LATEST_ORDER_ID),
                                                    "request_cancellation",
                                                    ReqArgs(order_id, <<key>>, <<>>),
                                                    p, new_ids)}})} :
                  /\ FaultsIn(out.requests, p) = Cardinality({k \in 1..2 : p[k] # "ok"})
                  /\ Served_(a, out, p)
                  /\ tasks' = [tasks EXCEPT ![i].at = "returned",
                                            ![i].result = <<out.result>>,
                                            ![i].requests = out.requests]
    /\ UNCHANGED <<heap, SCOPES, session, stored, conn, pc, step, user_message,
                   current_user_text, tool_results, action, reply, turn, said>>

NextRace ==
    \/ \E a \in RaceInvocations : Arrive(a)
    \/ \E i \in 1..MaxTasks : Respond(i)

SpecRace == InitTools /\ [][NextRace]_vars

\* invocations i and j are confirmed cancellations of the same order under the same key
\* and j arrived while i was in flight
ConcurrentReplay(i, j) ==
    /\ i \in tasks[j].overlapped
    /\ Confirmed(tasks[i].call.args) /\ Confirmed(tasks[j].call.args)
    /\ tasks[i].call.args.order_id = tasks[j].call.args.order_id
    /\ tasks[i].call.args.idempotency_key = tasks[j].call.args.idempotency_key

\* C35 as stated: of two confirmed cancellations with the same order id and idempotency
\* key that one tool server process handles concurrently, at most one calls the backend's
\* cancel operation, and both return the same result.
C35_ConcurrentReplayCallsOnce ==
    \A i, j \in 1..Len(tasks) :
        (ConcurrentReplay(i, j) /\ tasks[i].at = "returned" /\ tasks[j].at = "returned") =>
            /\ tasks[i].requests = <<>> \/ tasks[j].requests = <<>>
            /\ tasks[i].result = tasks[j].result

----------------------------------------------------------------------------
(* The agent service's event loop with several /chat requests of one session in flight *)

\* the messages of the concurrent requests
ChatMessages == {"What is my order status?", "Order 2 widgets", "Hello"}

\* sessions[id]["tool_results"] when the first request arrives: the list of a new session,
\* or the list a turn "What is my order status?" has left
StoredHistories ==
    {<<>>,
     <<[EmptyResult EXCEPT !.ok = TRUE, !.order = <<DelayedOrder>>],
       [EmptyResult EXCEPT !.ok = TRUE,
                           !.status = <<[orderId |-> "ORD-12345", status |-> "DELAYED",
                                         cancelled |-> FALSE]>>]>>}

\* the agent service is up; the session's list is list object 0
InitChat ==
    /\ ORDERS = InitialOrders
    /\ LATEST_ORDER_ID = "ORD-12345"
    /\ SCOPES = AllScopes
    /\ cache = [k \in {} |-> 0]
    /\ session = <<>>
    /\ stored = <<>>
    /\ conn = {}
    /\ pc = "idle"
    /\ step = 0
    /\ user_message = ""
    /\ current_user_text = ""
    /\ tool_results = <<>>
    /\ action = NoAction
    /\ reply = <<>>
    /\ turn = 0
    /\ said = <<>>
    /\ fault_count = MaxFaults
    /\ uuids = 0
    /\ writes = <<>>
    /\ obs = NoObs
    /\ tasks = <<>>
    /\ \E h \in StoredHistories : heap = [lists |-> (0 :> h), session |-> 0]

\* the indices of the requests that have not been answered yet
Unanswered == {k \in 1..Len(tasks) : tasks[k].at # "done"}

\* app.py 70-86, agent.py 51-55: a request arrives; run_agent is called with the session's
\* list and works on that very list unless it is empty (tool_results or []), then on a new
\* list; it suspends in conn.connect
ChatArrive(u) ==
    /\ Len(tasks) < MaxTasks
    /\ LET base == heap.lists[heap.session]
           id == IF base = <<>> THEN Len(tasks) + 1 ELSE heap.session
       IN  /\ heap' = [heap EXCEPT !.lists = Put(@, id, base)]
           /\ tasks' = Append(tasks,
                              [message |-> u, list |-> id, base |-> base, own |-> <<>>,
                               seen |-> <<>>, overlapped |-> Unanswered, step |-> 0,
                               text |-> u, at |-> "connecting", action |-> NoAction,
                               reply |-> <<>>])
    /\ UNCHANGED <<ORDERS, LATEST_ORDER_ID, SCOPES, cache, session, stored, conn, pc, step,
                   user_message, current_user_text, tool_results, action, reply, turn, said,
                   fault_count, uuids, writes, obs>>

\* agent.py 68-85, 107-110: the loop of task t runs on from the top of a pass, h being the
\* contents of its list, up to the next await: a tool call, or the close of the connection
\* once the reply is known
Resume(t, h) ==
    IF LoopExhausted(t.step)
    THEN [t EXCEPT !.at = "closing", !.reply = <<StepLimitMessage>>]
    ELSE The({IF a.type = "tool"
              THEN [t EXCEPT !.at = "call", !.action = a,
                             !.seen = Append(@, [history |-> h, own |-> t.own])]
              ELSE [t EXCEPT !.at = "closing", !.reply = <<a.text>>,
                             !.seen = Append(@, [history |-> h, own |-> t.own])] :
              a \in {next_action(t.text, h)}})

\* agent.py 92-102: the tool asked for confirmation; the planner is called once more
AskConfirmation(t, h) ==
    The({[t EXCEPT !.at = "closing",
                   !.reply = IF a.type = "ask_user" THEN <<a.text>>
                             ELSE <<GenericConfirmationPrompt>>,
                   !.seen = Append(@, [history |-> h, own |-> t.own])] :
         a \in {next_action("", h)}})

\* agent.py 55-66: the connection of request i is established and its loop starts
ChatConnected(i) ==
    /\ i \in 1..Len(tasks)
    /\ tasks[i].at = "connecting"
    /\ tasks' = [tasks EXCEPT ![i] = Resume(tasks[i], heap.lists[tasks[i].list])]
    /\ UNCHANGED <<heap, ORDERS, LATEST_ORDER_ID, SCOPES, cache, session, stored, conn, pc,
                   step, user_message, current_user_text, tool_results, action, reply, turn,
                   said, fault_count, uuids, writes, obs>>

\* agent.py 87-105: the tool call of request i is served by the tool server of its turn
\* and returns; the result is appended to the list the request works on and the loop runs on
ChatToolReturns(i) ==
    /\ i \in 1..Len(tasks)
    /\ tasks[i].at = "call"
    /\ \E new_ids \in NewIds(tasks[i].action.tool) :
          \E out \in {CallTool(tasks[i].action.tool, AllScopes,
                              Backend(ORDERS, LATEST_ORDER_ID), [k \in {} |-> 0],
                              tasks[i].action.args, <<"ok", "ok">>, new_ids, FreshUuid)} :
              LET r == call_tool(JsonResponse(out.result))
                  h == Append(heap.lists[tasks[i].list], r)
                  t == [tasks[i] EXCEPT !.own = Append(@, r)]
              IN  /\ ORDERS' = out.be.orders
                  /\ LATEST_ORDER_ID' = out.be.latest
                  /\ uuids' = IF DrawsUuid(tasks[i].action) THEN uuids + 1 ELSE uuids
                  /\ heap' = [heap EXCEPT !.lists[tasks[i].list] = h]
                  /\ tasks' = [tasks EXCEPT ![i] =
                                  IF IsConfirmationRequired(r) THEN AskConfirmation(t, h)
                                  ELSE Resume([t EXCEPT !.step = @ + 1, !.text = ""], h)]
    /\ UNCHANGED <<SCOPES, cache, session, stored, conn, pc, step, user_message,
                   current_user_text, tool_results, action, reply, turn, said, fault_count,
                   writes, obs>>

\* agent.py 111-112, app.py 88-93: the connection is closed, run_agent returns and the
\* handler stores the returned list in the session
ChatReturn(i) ==
    /\ i \in 1..Len(tasks)
    /\ tasks[i].at = "closing"
    /\ heap' = [heap EXCEPT !.session = tasks[i].list]
    /\ tasks' = [tasks EXCEPT ![i].at = "done"]
    /\ UNCHANGED <<ORDERS, LATEST_ORDER_ID, SCOPES, cache, session, stored, conn, pc, step,
                   user_message, current_user_text, tool_results, action, reply, turn, said,
                   fault_count, uuids, writes, obs>>

NextChat ==
    \/ \E u \in ChatMessages : ChatArrive(u)
    \/ \E i \in 1..MaxTasks : ChatConnected(i)
    \/ \E i \in 1..MaxTasks : ChatToolReturns(i)
    \/ \E i \in 1..MaxTasks : ChatReturn(i)

SpecChat == InitChat /\ [][NextChat]_vars

\* the total number of tool results of the requests so far
RECURSIVE OwnCount(_)
OwnCount(n) == IF n = 0 THEN 0 ELSE Len(tasks[n].own) + OwnCount(n - 1)

\* C36 as stated: each planner call of a /chat request sees the history stored when the
\* request arrived followed by the request's own tool results so far and nothing else; and
\* once all requests of the session are answered, the session's tool_results holds the
\* stored history and every tool result of every request.
C36_ConcurrentChatsKeepResults ==
    /\ \A i \in 1..Len(tasks) :
          \A k \in 1..Len(tasks[i].seen) :
              tasks[i].seen[k].history = tasks[i].base \o tasks[i].seen[k].own
    /\ (Len(tasks) = MaxTasks /\ Unanswered = {}) =>
          /\ Len(heap.lists[heap.session]) = Len(tasks[1].base) + OwnCount(Len(tasks))
          /\ \A i \in 1..Len(tasks) :
                \A k \in 1..Len(tasks[i].own) :
                    \E j \in 1..Len(heap.lists[heap.session]) :
                        heap.lists[heap.session][j] = tasks[i].own[k]

----------------------------------------------------------------------------
(* What the planner reads from an utterance *)

\* C37 as stated: a message that is one of the planner's confirm utterances is classified
\* as confirm, and one that is one of its decline utterances as decline.
C37_ListedUtterancesClassified ==
    /\ Strip(Lower(user_message)) \in ConfirmSet => _detect_intent(user_message) = "confirm"
    /\ Strip(Lower(user_message)) \in DeclineSet => _detect_intent(user_message) = "decline"

\* C38 as stated: on an empty history the message "Order n <product>s", for a product of
\* the catalog, is classified as add_order and the planner returns create_order with the
\* one item (product, n) and confirmed=false.
C38_OrderUtteranceCreatesOrder ==
    \A n \in OrderQuantities, k \in 1..Len(AVAILABLE_PRODUCTS) :
        (/\ user_message = "Order " \o ToString(n) \o " " \o AVAILABLE_PRODUCTS[k] \o "s"
         /\ session = <<>>
         /\ Len(obs.calls) >= 1) =>
            /\ _detect_intent(user_message) = "add_order"
            /\ obs.calls[1].action =
                  ToolAction("create_order",
                             [NoArgs EXCEPT
                                 !.items = <<<<[product_name |-> AVAILABLE_PRODUCTS[k],
                                                quantity |-> n]>>>>,
                                 !.confirmed = <<FALSE>>])

\* what may stand between a number and a product name: spaces and one x
Separators == {"", " ", "x", " x", "x ", " x "}

\* lower has a number next to an occurrence of product: before it, or after it or its plural
NumberAdjacent(lower, product) ==
    \E i \in 1..Len(lower), sep \in Separators :
        \/ IsDigit(Char(lower, i)) /\ MatchAt(lower, sep \o product, i + 1)
        \/ \E name \in {product, product \o "s"} :
              /\ MatchAt(lower, name \o sep, i)
              /\ i + Len(name \o sep) <= Len(lower)
              /\ IsDigit(Char(lower, i + Len(name \o sep)))

\* C39: every item the planner extracts from an add_order utterance, and sends with
\* create_order, has a quantity of at most 100, and of exactly 1 when the text has no
\* number next to the product name.
C39_QuantityClampedDefaultOne ==
    \A k \in 1..Len(obs.calls) :
        LET c == obs.calls[k]
            items == _extract_order_items(c.text)
        IN  _detect_intent(c.text) = "add_order" =>
                /\ \A j \in 1..Len(items) :
                      /\ items[j].quantity <= 100
                      /\ ~NumberAdjacent(Lower(c.text), items[j].product_name) =>
                             items[j].quantity = 1
                /\ (c.action.type = "tool" /\ c.action.tool = "create_order"
                    /\ ~Confirmed(c.action.args)) => c.action.args.items = <<items>>

\* "Order 250 widgets and gadget" was planned as 100 widgets and 1 gadget
C39_Witness ==
    \E k \in 1..Len(obs.calls) :
        /\ obs.calls[k].text = "Order 250 widgets and gadget"
        /\ obs.calls[k].action.type = "tool"
        /\ obs.calls[k].action.tool = "create_order"
        /\ obs.calls[k].action.args.items =
              <<<<[product_name |-> "widget", quantity |-> 100],
                  [product_name |-> "gadget", quantity |-> 1]>>>>

====
